---- MODULE Spec2Model ----
(***************************************************************************)
(* Series-y-Pelis: title normalisation, token similarity, the FilmAffinity *)
(* candidate resolver (modules/fa_match.js and the inline resolver of      *)
(* getFARating), the getFARating query cascade with its per-run cache,     *)
(* scoring (computeFinal, coverage), ranking (pickTop), the release window *)
(* the build loops of buildMoviesES and buildSeriesES, and the filter      *)
(* chips of modules/ui_filters.js (mountFilters).                          *)
(*                                                                         *)
(* Strings are sequences of characters; a character is a one-element       *)
(* string, except that a precomposed accented letter is written            *)
(* "a+acute" and a combining mark "+acute".                                *)
(***************************************************************************)
EXTENDS Integers, Sequences, FiniteSets, TLC

VARIABLES
  strA,      \* title functions: first input string
  strB,      \* title functions: second input string
  variant,   \* title functions: which file's normalizeTitle/tokenSimilarity
  strOut,    \* title functions: what the calls returned
  strPc,     \* title functions: which calls have been made
  item,      \* resolver: the item to match
  cands,     \* resolver: the candidate list, in search-result order
  opts,      \* resolver: opts.minTitleSim of pickBestFA, NoSim when absent
  resOut,    \* resolver: which resolver ran and what it returned
  resPc,     \* resolver: whether a resolver has run
  faCache,   \* build: the Map faCache, a function from cache keys to results
  site,      \* build: the URL list the source's search page gives for a query
  failures,  \* build: how many requests got a non-ok response so far
  calls,     \* build: how many getFARating calls were started
  pc,        \* build: where the getFARating call in progress stands
  args,      \* getFARating: its argument with es and orig, the cleaned titles
  queries,   \* getFARating: the query list
  qi,        \* getFARating: the index in queries of the query of this iteration
  faUrls,    \* getFARating: the URLs the search of this query returned
  ki,        \* getFARating: the index in faUrls of the candidate of this iteration
  bestSt,    \* getFARating: best and bestScore
  ret,       \* getFARating: the value returned
  slept,     \* build: milliseconds slept since the last request
  rev,       \* build: which revision's getFARating
  searched,  \* history: how many searches were made for a query and item type
  writer,    \* history: the item type of the call that wrote a cache entry
  fetched,   \* history: how many detail pages of this query were read
  prev,      \* history: the argument and the result of the call before this one
  outstanding, \* history: how many requests were sent and not yet answered
  aggX,      \* aggregate: the item whose signals computeFinal reads
  aggOut,    \* aggregate: what computeFinal and coverage returned
  aggPc,     \* aggregate: whether computeFinal has run
  topItems,  \* ranking: the enriched items handed to pickTop
  topN,      \* ranking: the n handed to pickTop
  topRev,    \* ranking: which revision's pickTop
  topOut,    \* ranking: what pickTop returned
  topPc,     \* ranking: whether pickTop has run
  winIso,    \* window: the release date, a string or null
  winDays,   \* window: the days of the window
  winNow,    \* window: now.getTime()
  winTz,     \* window: the hours the zone of the host is ahead of UTC
  winFn,     \* window: which of the two functions
  winOut,    \* window: what the function returned
  winPc,     \* window: whether the function has run
  bRev,      \* build: which revision of the build script
  bKind,     \* build: buildMoviesES or buildSeriesES
  bNow,      \* build: const now
  bCatalog,  \* build: what the services know, a list of catalog entries
  bResults,  \* build: const results
  bIdx,      \* build: the position in results of the title of this iteration
  bCur,      \* build: es, imdb, fa and the item of this iteration
  bEnriched, \* build: const enriched
  bOut,      \* build: what the build returned
  bLog,      \* build: the network calls issued, each with the id of its title
  bFaults,   \* build: how many responses were not ok so far
  bPc,       \* build: where the build stands
  fOptions,  \* filters: options.platforms and options.genres
  fState,    \* filters: const state of mountFilters
  fArg,      \* filters: the argument of the last onChange call
  fCalls,    \* filters: how many times onChange was called
  fClicks,   \* history: the clicks on each chip since mount or the last clear
  fLast,     \* history: the target of the last click
  fEvents,   \* history: how many clicks were handled
  fPc        \* filters: whether mountFilters has run

strVars == <<strA, strB, variant, strOut, strPc>>
resVars == <<item, cands, opts, resOut, resPc>>
runVars == <<faCache, site, failures, calls, pc, args, queries, qi, faUrls, ki, bestSt, ret,
             slept, rev, searched, writer, fetched, prev, outstanding>>
aggVars == <<aggX, aggOut, aggPc>>
topVars == <<topItems, topN, topRev, topOut, topPc>>
winVars == <<winIso, winDays, winNow, winTz, winFn, winOut, winPc>>
buildVars == <<bRev, bKind, bNow, bCatalog, bResults, bIdx, bCur, bEnriched, bOut, bLog, bFaults,
               bPc>>
filterVars == <<fOptions, fState, fArg, fCalls, fClicks, fLast, fEvents, fPc>>
notStrVars == <<resVars, runVars, aggVars, topVars, winVars, buildVars, filterVars>>
notResVars == <<strVars, runVars, aggVars, topVars, winVars, buildVars, filterVars>>
notRunVars == <<strVars, resVars, aggVars, topVars, winVars, buildVars, filterVars>>
notAggVars == <<strVars, resVars, runVars, topVars, winVars, buildVars, filterVars>>
notTopVars == <<strVars, resVars, runVars, aggVars, winVars, buildVars, filterVars>>
notWinVars == <<strVars, resVars, runVars, aggVars, topVars, buildVars, filterVars>>
notBuildVars == <<strVars, resVars, runVars, aggVars, topVars, winVars, filterVars>>
notFilterVars == <<strVars, resVars, runVars, aggVars, topVars, winVars, buildVars>>
vars == <<strA, strB, variant, strOut, strPc, item, cands, opts, resOut, resPc,
          faCache, site, failures, calls, pc, args, queries, qi, faUrls, ki, bestSt, ret,
          slept, rev, searched, writer, fetched, prev, outstanding, aggX, aggOut, aggPc, topItems, topN, topRev, topOut, topPc,
          winIso, winDays, winNow, winTz, winFn, winOut, winPc,
          bRev, bKind, bNow, bCatalog, bResults, bIdx, bCur, bEnriched, bOut, bLog, bFaults,
          bPc, fOptions, fState, fArg, fCalls, fClicks, fLast, fEvents, fPc>>

\* null/undefined of a type, a URL or another atom
Null == "null"
\* null where a string is expected
NullStr == <<"<null>">>
\* null where a number is expected; the numbers of the model are >= 0
NullNum == 0 - 1
\* NaN
NaN == 0 - 2

(***************************************************************************)
(* Characters                                                              *)
(***************************************************************************)
LowerAZ == <<"a","b","c","d","e","f","g","h","i","j","k","l","m",
             "n","o","p","q","r","s","t","u","v","w","x","y","z">>
UpperAZ == <<"A","B","C","D","E","F","G","H","I","J","K","L","M",
             "N","O","P","Q","R","S","T","U","V","W","X","Y","Z">>
DigitChars == <<"0","1","2","3","4","5","6","7","8","9">>

Range(f) == { f[i] : i \in DOMAIN f }

\* [a-z0-9]
AlnumLower == Range(LowerAZ) \cup Range(DigitChars)
\* \s of a JavaScript regular expression (the members the model's inputs use)
Whitespace == {" ", "\t"}
\* \w of a JavaScript regular expression
WordChars == Range(LowerAZ) \cup Range(UpperAZ) \cup Range(DigitChars) \cup {"_"}

\* precomposed accented letters: lower case, upper case, base letter
AccentLower == <<"a+acute", "o+acute", "n+tilde">>
AccentUpper == <<"A+acute", "O+acute", "N+tilde">>
AccentBase  == <<"a", "o", "n">>
\* combining marks, U+0300..U+036F
CombiningMarks == {"+acute", "+tilde"}

IndexOf(seq, c) == CHOOSE i \in DOMAIN seq : seq[i] = c

RECURSIVE Flatten(_)
Flatten(ss) == IF ss = <<>> THEN <<>> ELSE Head(ss) \o Flatten(Tail(ss))

\* String.prototype.toLowerCase
toLowerCase(s) ==
  [i \in 1..Len(s) |->
     IF s[i] \in Range(UpperAZ) THEN LowerAZ[IndexOf(UpperAZ, s[i])]
     ELSE IF s[i] \in Range(AccentUpper) THEN AccentLower[IndexOf(AccentUpper, s[i])]
     ELSE s[i]]

\* s.normalize("NFD").replace(/[\u0300-\u036f]/g, "")
stripDiacritics(s) ==
  Flatten([i \in 1..Len(s) |->
     IF s[i] \in Range(AccentLower) THEN <<AccentBase[IndexOf(AccentLower, s[i])]>>
     ELSE IF s[i] \in Range(AccentUpper)
       THEN <<UpperAZ[IndexOf(LowerAZ, AccentBase[IndexOf(AccentUpper, s[i])])]>>
     ELSE IF s[i] \in CombiningMarks THEN <<>>
     ELSE <<s[i]>>])

\* .replace(/&/g, "and")
replaceAmp(s) ==
  Flatten([i \in 1..Len(s) |-> IF s[i] = "&" THEN <<"a","n","d">> ELSE <<s[i]>>])

\* .replace(/[...]/g, "") for a character class
removeChars(s, class) ==
  Flatten([i \in 1..Len(s) |-> IF s[i] \in class THEN <<>> ELSE <<s[i]>>])

\* .replace(/[^a-z0-9\s]/g, " ")
nonAlnumToSpace(s) ==
  [i \in 1..Len(s) |-> IF s[i] \in AlnumLower \cup Whitespace THEN s[i] ELSE " "]

\* .replace(/\s+/g, " ")
collapseWs(s) ==
  Flatten([i \in 1..Len(s) |->
     IF s[i] \notin Whitespace THEN <<s[i]>>
     ELSE IF i = 1 \/ s[i-1] \notin Whitespace THEN <<" ">>
     ELSE <<>>])

\* String.prototype.trim
trim(s) ==
  LET keep == { i \in 1..Len(s) : s[i] \notin Whitespace } IN
    IF keep = {} THEN <<>>
    ELSE SubSeq(s, CHOOSE i \in keep : \A j \in keep : i <= j,
                   CHOOSE i \in keep : \A j \in keep : j <= i)

(***************************************************************************)
(* modules/title_normalize.js                                              *)
(***************************************************************************)
\* the alternatives of the noise pattern, in the order the pattern lists them
NoiseWords == <<
  <<"m","i","n","i","s","e","r","i","e">>,
  <<"m","i","n","i"," ","s","e","r","i","e">>,
  <<"s","e","r","i","e"," ","a","n","i","m","a","c","i","o","n">>,
  <<"s","e","r","i","e"," ","d","e"," ","a","n","i","m","a","c","i","o","n">>,
  <<"t","e","m","p","o","r","a","d","a">>,
  <<"s","e","a","s","o","n">> >>

\* \b at the gap before position i (1..Len(s)+1)
wordBoundary(s, i) ==
  LET before == i > 1 /\ s[i-1] \in WordChars
      after  == i <= Len(s) /\ s[i] \in WordChars
  IN before # after

\* does the literal w match s at position i
matchesAt(s, i, w) ==
  /\ i + Len(w) - 1 <= Len(s)
  /\ \A k \in 1..Len(w) : s[i + k - 1] = w[k]

\* length of the match of /\b(alt1|alt2|...)\b/ at position i, 0 when none:
\* the first alternative, in order, that matches with a boundary on both sides
noiseMatchLen(s, i, words) ==
  LET ok == { k \in DOMAIN words :
                /\ wordBoundary(s, i)
                /\ matchesAt(s, i, words[k])
                /\ wordBoundary(s, i + Len(words[k])) }
  IN IF ok = {} THEN 0
     ELSE Len(words[CHOOSE k \in ok : \A j \in ok : k <= j])

RECURSIVE removeNoiseFrom(_, _, _)
removeNoiseFrom(s, i, words) ==
  IF i > Len(s) THEN <<>>
  ELSE LET m == noiseMatchLen(s, i, words) IN
       IF m > 0 THEN removeNoiseFrom(s, i + m, words)
       ELSE <<s[i]>> \o removeNoiseFrom(s, i + 1, words)

\* .replace(/\b(miniserie|mini serie|...|season)\b/g, "")
removeNoise(s) == removeNoiseFrom(s, 1, NoiseWords)

\* String(s): null becomes the string "null"
String(s) == IF s = NullStr THEN <<"n","u","l","l">> ELSE s

\* JavaScript truthiness of a string-or-null
Truthy(s) == s # NullStr /\ s # <<>>

\* a || b on strings
Or(a, b) == IF Truthy(a) THEN a ELSE b

cleanedTitle(s) ==
  trim(collapseWs(nonAlnumToSpace(removeChars(replaceAmp(
    stripDiacritics(toLowerCase(String(s)))), {"'", "rsquo"}))))

normalizeTitleSteps(s) == trim(collapseWs(removeNoise(cleanedTitle(s))))

\* normalizeTitle of the build script: no noise words, and it strips " too
normalizeTitleBuildSteps(s) ==
  trim(collapseWs(nonAlnumToSpace(removeChars(replaceAmp(
    stripDiacritics(toLowerCase(String(s)))), {"'", "rsquo", "dquote"}))))

\* The titles the resolvers and the cascade are run on; what normalizeTitle
\* returns for them is computed once and looked up afterwards.
Dune == <<"D","u","n","e">>
DuneParteDos == <<"D","u","n","e",":"," ","P","a","r","t","e"," ","D","o","s">>
DuneDos == <<"D","u","n","e"," ","D","o","s">>
DuneDune == <<"D","u","n","e"," ","d","u","n","e">>
Duna1984 == <<"D","u","n","a"," ","1","9","8","4">>
DuneParte2 == <<"D","u","n","e"," ","P","a","r","t","e"," ","2">>

KnownTitles == {Dune, DuneParteDos, DuneDos, DuneDune, Duna1984, DuneParte2, NullStr, <<>>}

normalizeTitleTable == [t \in KnownTitles |-> normalizeTitleSteps(t)]
normalizeTitleBuildTable == [t \in KnownTitles |-> normalizeTitleBuildSteps(t)]

normalizeTitle(s) ==
  IF s \in KnownTitles THEN normalizeTitleTable[s] ELSE normalizeTitleSteps(s)

normalizeTitleBuild(s) ==
  IF s \in KnownTitles THEN normalizeTitleBuildTable[s] ELSE normalizeTitleBuildSteps(s)

\* s.split(" ").filter(Boolean), as the Set made of it
RECURSIVE splitFrom(_, _, _)
splitFrom(s, i, cur) ==
  IF i > Len(s) THEN (IF cur = <<>> THEN {} ELSE {cur})
  ELSE IF s[i] = " "
    THEN (IF cur = <<>> THEN {} ELSE {cur}) \cup splitFrom(s, i + 1, <<>>)
    ELSE splitFrom(s, i + 1, Append(cur, s[i]))

tokenSet(s) == splitFrom(s, 1, <<>>)

\* a similarity or a score is the fraction num/den; "return 0" is 0/1
Zero == [num |-> 0, den |-> 1]
\* no similarity (a call not made yet, an option not given)
NoSim == [num |-> 0, den |-> 0]

FracLt(x, y) == x.num * y.den < y.num * x.den
FracEq(x, y) == x.num * y.den = y.num * x.den

\* the union counted as A.size + B.size, the intersection not taken off
jaccardDoubleCount(A, B) ==
  IF A = {} \/ B = {} THEN Zero
  ELSE [num |-> Cardinality(A \cap B), den |-> Cardinality(A) + Cardinality(B)]

\* the intersection over A.size instead of the union
jaccardOverFirst(A, B) ==
  IF A = {} \/ B = {} THEN Zero
  ELSE [num |-> Cardinality(A \cap B), den |-> Cardinality(A)]

jaccard(A, B) ==
  IF A = {} \/ B = {} THEN Zero
  ELSE LET inter == Cardinality(A \cap B)
           union == Cardinality(A) + Cardinality(B) - inter
       IN IF union # 0 THEN [num |-> inter, den |-> union] ELSE Zero

tokenSimilarity(a, b) == jaccard(tokenSet(normalizeTitle(a)), tokenSet(normalizeTitle(b)))

tokenSimilarityBuild(a, b) ==
  jaccard(tokenSet(normalizeTitleBuild(a)), tokenSet(normalizeTitleBuild(b)))

(***************************************************************************)
(* cleanTitle of the build script                                          *)
(***************************************************************************)
\* the end of the run of whitespace that starts at i: the first j >= i with
\* s[j] not whitespace, Len(s) + 1 when there is none
wsRunEnd(s, i) ==
  CHOOSE j \in i..(Len(s) + 1) :
    /\ j = Len(s) + 1 \/ s[j] \notin Whitespace
    /\ \A k \in i..(j - 1) : s[k] \in Whitespace

\* the start of the run of whitespace that ends just before i
wsRunStart(s, i) ==
  CHOOSE p \in 1..i :
    /\ p = 1 \/ s[p - 1] \notin Whitespace
    /\ \A k \in p..(i - 1) : s[k] \in Whitespace

\* .replace(/\s*\(.*?\)\s*/g, " ")
RECURSIVE removeParensFrom(_, _)
removeParensFrom(s, i) ==
  IF i > Len(s) THEN <<>>
  ELSE LET open == wsRunEnd(s, i)
           closes == { k \in (open + 1)..Len(s) : s[k] = ")" }
       IN IF open <= Len(s) /\ s[open] = "(" /\ closes # {}
          THEN LET close == CHOOSE k \in closes : \A m \in closes : k <= m IN
               <<" ">> \o removeParensFrom(s, wsRunEnd(s, close + 1))
          ELSE <<s[i]>> \o removeParensFrom(s, i + 1)

\* .replace(/\s*:\s*.*/g, ""): everything from the first colon on, and the
\* whitespace before it (a title has no line break)
cutAtColon(s) ==
  LET colons == { k \in 1..Len(s) : s[k] = ":" } IN
  IF colons = {} THEN s
  ELSE LET first == CHOOSE k \in colons : \A m \in colons : k <= m IN
       SubSeq(s, 1, wsRunStart(s, first) - 1)

\* .replace(/\s*X\s*/g, " - ") for a dash character X
RECURSIVE padDashFrom(_, _, _)
padDashFrom(s, i, dash) ==
  IF i > Len(s) THEN <<>>
  ELSE LET at == wsRunEnd(s, i) IN
       IF at <= Len(s) /\ s[at] = dash
       THEN <<" ", "-", " ">> \o padDashFrom(s, wsRunEnd(s, at + 1), dash)
       ELSE <<s[i]>> \o padDashFrom(s, i + 1, dash)

\* the suffixes cleanTitle strips from the end, in its order
suffixes == <<
  <<"s","e","r","i","e","a","n","i","m","a","c","i","o","n">>,
  <<"s","e","r","i","e"," ","a","n","i","m","a","c","i","o","n">>,
  <<"s","e","r","i","e">>,
  <<"s","e","r","i","e","t","v">>,
  <<"s","e","r","i","e"," ","t","v">>,
  <<"s","e","r","i","e"," ","d","e"," ","t","v">>,
  <<"s","e","r","i","e"," ","d","e"," ","t","e","l","e","v","i","s","i","o","n">>,
  <<"m","i","n","i","s","e","r","i","e">>,
  <<"t","v">>,
  <<"d","o","c","u","m","e","n","t","a","l">>,
  <<"s","e","r","i","e"," ","d","o","c","u","m","e","n","t","a","l">> >>

\* [\-...|/:] of the suffix pattern
SuffixSeparators == {"-", "ndash", "mdash", "middot", "bull", "|", "/", ":"}

\* where /(?:\s*[sep]?\s*)suf\s*$/i matches in s, 0 when it does not: the
\* suffix ends the string (whitespace may follow), and the match starts as
\* far left as whitespace, one separator, whitespace allow
suffixMatchStart(s, suf) ==
  LET e == IF s = <<>> THEN 0 ELSE wsRunStart(s, Len(s) + 1) - 1
      b == e - Len(suf) + 1
  IN IF b < 1 \/ toLowerCase(SubSeq(s, b, e)) # suf THEN 0
     ELSE LET p == wsRunStart(s, b) IN
          IF p > 1 /\ s[p - 1] \in SuffixSeparators THEN wsRunStart(s, p - 1)
          ELSE p

\* re.test(stripDiacritics(s).toLowerCase())
suffixTest(s, suf) == suffixMatchStart(toLowerCase(stripDiacritics(s)), suf) # 0

\* s.replace(re, "").trim()
suffixReplace(s, suf) ==
  LET at == suffixMatchStart(s, suf) IN
  IF at = 0 THEN trim(s) ELSE trim(SubSeq(s, 1, at - 1))

\* for (const suf of suffixes), from the k-th suffix on: [s, changed] after it
RECURSIVE suffixPass(_, _)
suffixPass(st, k) ==
  IF k > Len(suffixes) THEN st
  ELSE IF suffixTest(st.s, suffixes[k])
       THEN suffixPass([s |-> suffixReplace(st.s, suffixes[k]), changed |-> TRUE], k + 1)
       ELSE suffixPass(st, k + 1)

\* for (let pass = 0; pass < 2; pass++): a second pass only when the first
\* one changed the string
suffixPassOf(s) == suffixPass([s |-> s, changed |-> FALSE], 1)

stripSuffixes(s) ==
  LET first == suffixPassOf(s)
      afterFirst == trim(collapseWs(first.s))
  IN IF first.changed THEN trim(collapseWs(suffixPassOf(afterFirst).s)) ELSE afterFirst

cleanTitleSteps(t) ==
  IF ~Truthy(t) THEN NullStr
  ELSE LET s1 == trim(collapseWs(removeChars(cutAtColon(removeParensFrom(t, 1)),
                                             {"rsquo", "'", "dquote"})))
           s2 == trim(padDashFrom(padDashFrom(s1, 1, "ndash"), 1, "-"))
           s3 == stripSuffixes(s2)
       IN IF s3 = <<>> THEN NullStr ELSE s3

cleanTitleTable == [t \in KnownTitles |-> cleanTitleSteps(t)]

cleanTitle(t) == IF t \in KnownTitles THEN cleanTitleTable[t] ELSE cleanTitleSteps(t)

(***************************************************************************)
(* modules/fa_match.js: pickBestFA                                         *)
(* An item is [title, type, year]; a candidate is                          *)
(* [title, type, year, url, rating]. Ratings are in tenths (7.8 is 78).    *)
(***************************************************************************)
\* Number.isFinite(x) for a number, null, or NaN
isFinite(x) == x >= 0

abs(x) == IF x < 0 THEN 0 - x ELSE x

\* hardReject without its two type rules
hardRejectYearOnly(it, cand) ==
  /\ isFinite(it.year) /\ isFinite(cand.year)
  /\ abs(it.year - cand.year) > 1

hardReject(it, cand) ==
  \/ it.type = "movie" /\ cand.type # "movie"
  \/ it.type = "series" /\ cand.type # "series"
  \/ /\ isFinite(it.year) /\ isFinite(cand.year)
     /\ abs(it.year - cand.year) > 1

\* the "Bonus por anio cercano" of scoreCandidate
yearBonus(it, cand) ==
  IF isFinite(it.year) /\ isFinite(cand.year)
  THEN LET diff == abs(it.year - cand.year) IN
       IF diff = 0 THEN 18 ELSE IF diff = 1 THEN 10 ELSE 0
  ELSE 0

\* tSim * 100 + bonus, as a fraction over the similarity's denominator
plusBonus(tSim, bonus) == [num |-> 100 * tSim.num + bonus * tSim.den, den |-> tSim.den]

scoreCandidate(it, cand) ==
  LET tSim == tokenSimilarity(it.title, cand.title) IN
  plusBonus(tSim,
    (IF normalizeTitle(it.title) = normalizeTitle(cand.title) THEN 25 ELSE 0)
    + yearBonus(it, cand)
    + (IF cand.rating # NullNum THEN 3 ELSE 0)
    + (IF cand.url # Null THEN 2 ELSE 0))

\* a default floor of 0.3
minTitleSimLow(o) == IF o = NoSim THEN [num |-> 3, den |-> 10] ELSE o

\* opts.minTitleSim ?? 0.45
minTitleSimOf(o) == IF o = NoSim THEN [num |-> 9, den |-> 20] ELSE o

\* the index in candidates of the candidate pickBestFA returns, 0 for null.
\* Array.prototype.sort is stable: of equal scores the earlier candidate is first.
pickBestFA(it, candidates, o) ==
  LET filtered == { i \in DOMAIN candidates : ~hardReject(it, candidates[i]) }
      s(i) == scoreCandidate(it, candidates[i])
  IN IF filtered = {} THEN 0
     ELSE LET best == CHOOSE i \in filtered : \A j \in filtered :
                        \/ FracLt(s(j), s(i))
                        \/ FracEq(s(j), s(i)) /\ i <= j
              sim == tokenSimilarity(it.title, candidates[best].title)
          IN IF FracLt(sim, minTitleSimOf(o)) THEN 0 ELSE best

(***************************************************************************)
(* getFARating of the build script: the candidate loop (one query)         *)
(* A page is what faGetRatingFromTitlePage returns: [fa, faTitle, faType,  *)
(* faYear]; the URL of pages[i] is i.                                      *)
(***************************************************************************)
\* Number(x) of a number-or-null: Number(null) is 0
NumberOf(x) == IF x = NullNum THEN 0 ELSE x

\* const minSim, had it been 0
minSimZero == [num |-> 0, den |-> 1]

\* const minSim = 0.45
minSim == [num |-> 9, den |-> 20]

\* "Regla dura": a detected type that differs from the desired one
typeRejected(desiredType, page) ==
  desiredType # Null /\ page.faType # Null /\ page.faType # desiredType

\* "Bonus por anio cercano si lo tenemos"
yearBonusBuild(year, page) ==
  LET yItem == NumberOf(year)
      yFA == NumberOf(page.faYear)
  IN IF isFinite(yItem) /\ isFinite(yFA)
     THEN LET diff == abs(yItem - yFA) IN
          IF diff = 0 THEN 18 ELSE IF diff = 1 THEN 10 ELSE 0
     ELSE 0

\* sim of a page: tokenSimilarity(es || orig || q, cand.faTitle || "")
pageSim(es, orig, q, page) ==
  tokenSimilarityBuild(Or(Or(es, orig), q), Or(page.faTitle, <<>>))

pageScore(es, orig, q, year, page) ==
  plusBonus(pageSim(es, orig, q, page),
    (IF /\ Truthy(normalizeTitleBuild(Or(es, <<>>)))
        /\ normalizeTitleBuild(Or(es, <<>>)) = normalizeTitleBuild(Or(page.faTitle, <<>>))
     THEN 25 ELSE 0)
    + yearBonusBuild(year, page)
    + (IF page.fa # NullNum THEN 3 ELSE 0))

\* let best = null; let bestScore = -Infinity: best is the URL of the best
\* candidate so far, 0 for null, and bestScore counts only when best is set
NoBest == [best |-> 0, bestScore |-> Zero,
           page |-> [fa |-> NullNum, faTitle |-> NullStr, faType |-> Null, faYear |-> NullNum]]

\* the body of "for (const faUrl of faUrls)" after the page was read
candidateStep(es, orig, q, year, desiredType, st, page, faUrl) ==
  IF typeRejected(desiredType, page) THEN st
  ELSE IF FracLt(pageSim(es, orig, q, page), minSim) THEN st
  ELSE LET score == pageScore(es, orig, q, year, page) IN
       IF st.best = 0 \/ FracLt(st.bestScore, score)
       THEN [best |-> faUrl, bestScore |-> score, page |-> page]
       ELSE st

\* the loop over pages[k..], pages[i] being the page at URL i
RECURSIVE candidateLoop(_, _, _, _, _, _, _, _)
candidateLoop(es, orig, q, year, desiredType, st, pages, k) ==
  IF k > Len(pages) THEN st
  ELSE candidateLoop(es, orig, q, year, desiredType,
         candidateStep(es, orig, q, year, desiredType, st, pages[k], k), pages, k + 1)

\* the URL of best after the loop, 0 for null
bestPage(es, orig, q, year, desiredType, pages) ==
  candidateLoop(es, orig, q, year, desiredType, NoBest, pages, 1).best

\* the all-null result
NoResult == [fa |-> NullNum, faUrl |-> 0, faTitle |-> NullStr, faType |-> Null]

\* res of one query, from best
resultOfBest(st) ==
  IF st.best = 0 THEN NoResult
  ELSE [fa |-> st.page.fa, faUrl |-> st.best,
        faTitle |-> (IF Truthy(st.page.faTitle) THEN st.page.faTitle ELSE NullStr),
        faType |-> st.page.faType]

\* res when best is the candidate at index best of pages
resultOf(best, pages) ==
  resultOfBest(IF best = 0 THEN NoBest
               ELSE [best |-> best, bestScore |-> Zero, page |-> pages[best]])

\* res.fa != null || res.faTitle != null
isHit(res) == res.fa # NullNum \/ res.faTitle # NullStr

(***************************************************************************)
(* Title functions applied to bounded inputs                               *)
(***************************************************************************)
MaxPieces == 3

Pieces == {
  <<"m","i","n","i">>,
  <<" ","s","e","r","i","e">>,
  <<" ","t","e","m","p","o","r","a","d","a">>,
  <<"D","u","n","e">>,
  <<"&">>,
  <<"'">>,
  <<"!">>,
  <<"A+acute">> }

RECURSIVE StringsOf(_)
StringsOf(n) ==
  IF n = 0 THEN {<<>>}
  ELSE LET shorter == StringsOf(n - 1) IN
       shorter \cup { s \o p : s \in shorter, p \in Pieces }

InputStrings == StringsOf(MaxPieces)
InputStringsB == StringsOf(1)

Variants == {"module", "build"}

normalizeOf(v, s) == IF v = "module" THEN normalizeTitle(s) ELSE normalizeTitleBuild(s)
similarityOf(v, a, b) ==
  IF v = "module" THEN tokenSimilarity(a, b) ELSE tokenSimilarityBuild(a, b)

StrInit ==
  /\ strA \in InputStrings
  /\ strB \in InputStringsB
  /\ variant \in Variants
  /\ strOut = [norm1 |-> NullStr, norm2 |-> NullStr, a |-> NullStr, b |-> NullStr,
               sim |-> NoSim, simRev |-> NoSim]
  /\ strPc = "input"

\* normalize(x)
Normalize ==
  /\ strPc = "input"
  /\ strOut' = [strOut EXCEPT !.norm1 = normalizeOf(variant, strA)]
  /\ strPc' = "normalized"
  /\ UNCHANGED <<strA, strB, variant>>
  /\ UNCHANGED notStrVars

\* normalize(normalize(x))
NormalizeAgain ==
  /\ strPc = "normalized"
  /\ strOut' = [strOut EXCEPT !.norm2 = normalizeOf(variant, strOut.norm1)]
  /\ strPc' = "renormalized"
  /\ UNCHANGED <<strA, strB, variant>>
  /\ UNCHANGED notStrVars

\* similarity(a, b) and similarity(b, a) for a pair of the inputs
Similarity ==
  /\ strPc = "renormalized"
  /\ \E a \in {strA, strB}, b \in {strA, strB, <<>>} :
       strOut' = [strOut EXCEPT !.a = a, !.b = b, !.sim = similarityOf(variant, a, b),
                                !.simRev = similarityOf(variant, b, a)]
  /\ strPc' = "compared"
  /\ UNCHANGED <<strA, strB, variant>>
  /\ UNCHANGED notStrVars

StrNext == Normalize \/ NormalizeAgain \/ Similarity

StrIdle ==
  /\ strA = <<>> /\ strB = <<>> /\ variant = "module" /\ strPc = "idle"
  /\ strOut = [norm1 |-> NullStr, norm2 |-> NullStr, a |-> NullStr, b |-> NullStr,
               sim |-> NoSim, simRev |-> NoSim]

(***************************************************************************)
(* The resolvers applied to bounded inputs                                 *)
(***************************************************************************)
MaxCands == 2

cand(title, type, year, rating, url) ==
  [title |-> title, type |-> type, year |-> year, rating |-> rating, url |-> url]

\* the candidates of the end-to-end example
DuneCand2024 == cand(DuneParteDos, "movie", 2024, 78, Null)
DuneCand1984 == cand(Duna1984, "movie", 1984, 65, Null)

CandidateUniverse == {
  DuneCand2024, DuneCand1984,
  cand(Dune, "movie", 2024, 78, "url"),
  cand(Dune, "movie", 2023, 78, "url"),
  cand(Dune, "movie", 1984, 65, "url"),
  cand(Dune, "movie", NullNum, NullNum, "url"),
  cand(Dune, "series", 2024, 78, "url"),
  cand(Dune, Null, 2024, 78, "url"),
  cand(Dune, Null, NullNum, 78, Null),
  cand(DuneDune, "movie", 2024, 78, "url"),
  cand(DuneParteDos, "movie", 2024, 78, "url"),
  cand(DuneParte2, "movie", 2024, 78, "url"),
  cand(DuneParteDos, "series", 2023, NullNum, "url"),
  cand(DuneDos, "movie", NullNum, NullNum, "url"),
  cand(DuneDos, Null, 2023, NullNum, Null) }

RECURSIVE ListsOf(_, _)
ListsOf(S, n) ==
  IF n = 0 THEN {<<>>}
  ELSE LET shorter == ListsOf(S, n - 1) IN
       shorter \cup { Append(l, c) : l \in shorter, c \in S }

\* an item of the resolver: the build's titles, type and year
Items ==
  { [titleEs |-> t[1], titleOriginal |-> t[2], type |-> ty, year |-> y] :
      t \in {<<Dune, NullStr>>, <<NullStr, Dune>>},
      ty \in {"movie", "series", Null},
      y \in {2024, NullNum} }

\* the item pickBestFA is given: its title is the primary title
matchItem(it) == [title |-> it.titleEs, type |-> it.type, year |-> it.year]

\* the page the build script reads at a candidate's URL
pageOf(c) == [fa |-> c.rating, faTitle |-> c.title, faType |-> c.type, faYear |-> c.year]

pagesOf(cs) == [i \in DOMAIN cs |-> pageOf(cs[i])]

NoOut == [by |-> "none", best |-> 0, res |-> NoResult, yearBonus |-> <<>>]

ResInit ==
  /\ item \in Items
  /\ cands \in ListsOf(CandidateUniverse, MaxCands)
  /\ opts \in {NoSim, [num |-> 3, den |-> 10]}
  /\ resOut = NoOut
  /\ resPc = "input"

\* pickBestFA(item, candidates, opts), for an item that has its primary title
PickBestFA ==
  /\ resPc = "input"
  /\ Truthy(item.titleEs)
  /\ LET best == pickBestFA(matchItem(item), cands, opts) IN
     resOut' = [by |-> "pickBestFA", best |-> best, res |-> resultOf(best, pagesOf(cands)),
                yearBonus |-> [i \in DOMAIN cands |-> yearBonus(matchItem(item), cands[i])]]
  /\ resPc' = "resolved"
  /\ UNCHANGED <<item, cands, opts>>
  /\ UNCHANGED notResVars

\* the candidate loop of getFARating over the pages of one query's URLs; the
\* builds always pass a desiredType, and a page's faTitle went through
\* cleanTitle
ResolveQuery ==
  /\ resPc = "input"
  /\ opts = NoSim
  /\ item.type # Null
  /\ \A i \in DOMAIN cands :
       cands[i].url # Null /\ cleanTitle(cands[i].title) = cands[i].title
  /\ LET best == bestPage(item.titleEs, item.titleOriginal, <<>>, item.year, item.type,
                          pagesOf(cands)) IN
     resOut' = [by |-> "getFARating", best |-> best, res |-> resultOf(best, pagesOf(cands)),
                yearBonus |-> [i \in DOMAIN cands |->
                                 yearBonusBuild(item.year, pageOf(cands[i]))]]
  /\ resPc' = "resolved"
  /\ UNCHANGED <<item, cands, opts>>
  /\ UNCHANGED notResVars

ResNext == PickBestFA \/ ResolveQuery

ResIdle ==
  /\ item = [titleEs |-> NullStr, titleOriginal |-> NullStr, type |-> Null, year |-> NullNum]
  /\ cands = <<>> /\ opts = NoSim /\ resOut = NoOut /\ resPc = "idle"

(***************************************************************************)
(* The build script: getFARating calls against the scraped source, one at  *)
(* a time, sharing faCache                                                 *)
(***************************************************************************)
MaxCalls == 2
MaxFailures == 2

\* String(n) of a non-negative integer, as `${year}` makes it
RECURSIVE digitsOf(_)
digitsOf(n) ==
  IF n < 10 THEN <<DigitChars[n + 1]>>
  ELSE digitsOf(n \div 10) \o <<DigitChars[(n % 10) + 1]>>

\* the characters of desiredType || "any"
typeChars(desiredType) ==
  IF desiredType = "movie" THEN <<"m","o","v","i","e">>
  ELSE IF desiredType = "series" THEN <<"s","e","r","i","e","s">>
  ELSE <<"a","n","y">>

\* `${q}::${desiredType || "any"}`
cacheKey(q, desiredType) == q \o <<":", ":">> \o typeChars(desiredType)

\* year && t ? `${t} ${year}` : null
withYear(t, year) ==
  IF year # NullNum /\ year # 0 /\ Truthy(t) THEN t \o <<" ">> \o digitsOf(year)
  ELSE NullStr

\* const queries = [...].filter(Boolean)
queriesOf(es, orig, year) ==
  SelectSeq(<<withYear(es, year), es, withYear(orig, year), orig>>, Truthy)

\* the limit of faFindTitleUrls
SearchLimit == 8

\* faFindTitleUrls(query, 8) when the search page was read: links are the
\* film links of the page, duplicates dropped, in page order
faFindTitleUrls(links) ==
  SubSeq(links, 1, IF Len(links) < SearchLimit THEN Len(links) ELSE SearchLimit)

\* what faGetRatingFromTitlePage returns when the page was not read
NoDataPage == [fa |-> NullNum, faTitle |-> NullStr, faType |-> Null, faYear |-> NullNum]

\* faGetRatingFromTitlePage(faUrl) when the page was read: html is what the
\* page shows, its h1, its <title> up to "| FilmAffinity", the type and the
\* year the heuristics detect, and the rating
faGetRatingFromTitlePage(html) ==
  [fa |-> html.fa,
   faTitle |-> LET found == Or(cleanTitle(html.h1), cleanTitle(html.title)) IN
               IF Truthy(found) THEN found ELSE NullStr,
   faType |-> html.faType,
   faYear |-> html.faYear]

\* faCache.set(key, res), had it stored nothing
cacheKeep(cache, key, res) == cache

\* faCache.set(key, res)
cacheSet(cache, key, res) ==
  [k \in (DOMAIN cache) \cup {key} |-> IF k = key THEN res ELSE cache[k]]

\* the film pages of the source; a URL is an index of SitePages
SitePages == <<
  [h1 |-> DuneParteDos, title |-> DuneParteDos, faType |-> "movie", faYear |-> 2024,
   fa |-> 78],
  [h1 |-> <<>>, title |-> DuneDos, faType |-> Null, faYear |-> 2023, fa |-> NullNum] >>

\* the items the build resolves
RunItems ==
  { [titleEs |-> es, titleOriginal |-> DuneDos, year |-> y, desiredType |-> ty] :
      es \in {DuneParteDos, NullStr}, y \in {2024, NullNum}, ty \in {"movie", "series"} }

RunQueries ==
  UNION { Range(queriesOf(cleanTitle(it.titleEs), cleanTitle(it.titleOriginal), it.year)) :
            it \in RunItems }

\* the revisions of getFARating: the first and the second one of
\* scripts/build-latest.mjs, and the one of part_001
Revisions == {"first", "second", "latest"}

\* const q = year ? `${title} ${year}` : title, of the first revision
queryFirst(title, year) ==
  IF year # NullNum /\ year # 0 THEN title \o <<" ">> \o digitsOf(year) ELSE title

\* the queries of an item in a revision
queriesIn(r, it) ==
  IF r = "first" THEN <<queryFirst(it.titleEs, it.year)>>
  ELSE queriesOf(cleanTitle(it.titleEs), cleanTitle(it.titleOriginal), it.year)

\* the items a revision resolves: a title of the first revision is never null
RunItemsOf(r) == { it \in RunItems : r = "first" => it.titleEs # NullStr }

RunQueriesOf(r) == UNION { Range(queriesIn(r, it)) : it \in RunItemsOf(r) }

\* what the source's search page lists for each query
Sites == [RunQueries -> {<<>>, <<1, 2>>}]

SitesOf(r) == [RunQueriesOf(r) -> {<<>>, <<1, 2>>}]

NoArgs == [titleEs |-> NullStr, titleOriginal |-> NullStr, year |-> NullNum,
           desiredType |-> Null, es |-> NullStr, orig |-> NullStr, type |-> Null]

EmptyCache == [k \in {} |-> NoResult]

NoSearches == [k \in {} |-> 0]

NoWriters == [k \in {} |-> Null]

NoCall == [args |-> NoArgs, ret |-> NoResult]

RunInit ==
  /\ rev \in Revisions
  /\ faCache = EmptyCache
  /\ site \in SitesOf(rev)
  /\ failures = 0 /\ calls = 0 /\ pc = "idle"
  /\ args = NoArgs /\ queries = <<>> /\ qi = 0
  /\ faUrls = <<>> /\ ki = 0 /\ bestSt = NoBest /\ ret = NoResult
  /\ slept = 0
  /\ searched = NoSearches /\ writer = NoWriters /\ fetched = 0 /\ prev = NoCall
  /\ outstanding = 0

RunIdle ==
  /\ rev = "latest"
  /\ faCache = EmptyCache
  /\ site = [q \in RunQueries |-> <<>>]
  /\ failures = 0 /\ calls = 0 /\ pc = "off"
  /\ args = NoArgs /\ queries = <<>> /\ qi = 0
  /\ faUrls = <<>> /\ ki = 0 /\ bestSt = NoBest /\ ret = NoResult
  /\ slept = 0
  /\ searched = NoSearches /\ writer = NoWriters /\ fetched = 0 /\ prev = NoCall
  /\ outstanding = 0

\* the cache key of a query of this call: `${q}::${desiredType || "any"}` in
\* part_001, q in the second revision
keyOf(q) == IF rev = "latest" THEN cacheKey(q, args.desiredType) ELSE q

\* the cache key of the query of this iteration
thisKey == keyOf(queries[qi])

\* the loop over the titles, had it not awaited getFARating
notAwaited == TRUE

\* the build awaits each getFARating call before it makes the next
awaited == pc \in {"idle", "returned"}

\* getFARating({ titleEs, titleOriginal, year, desiredType }) up to the loop;
\* the revisions of scripts/build-latest.mjs pass no desiredType, and the
\* first one neither cleans the title nor has a second query
Call ==
  /\ awaited
  /\ calls < MaxCalls
  /\ \E it \in RunItemsOf(rev) :
       LET es == IF rev = "first" THEN NullStr ELSE cleanTitle(it.titleEs)
           orig == IF rev = "first" THEN NullStr ELSE cleanTitle(it.titleOriginal)
       IN /\ args' = [titleEs |-> it.titleEs, titleOriginal |-> it.titleOriginal,
                      year |-> it.year,
                      desiredType |-> (IF rev = "latest" THEN it.desiredType ELSE Null),
                      es |-> es, orig |-> orig, type |-> it.desiredType]
          /\ queries' = queriesIn(rev, it)
  /\ qi' = 1 /\ calls' = calls + 1 /\ pc' = "query"
  /\ faUrls' = <<>> /\ ki' = 0 /\ bestSt' = NoBest /\ ret' = NoResult
  /\ prev' = [args |-> args, ret |-> ret]
  /\ UNCHANGED <<faCache, site, failures, slept, rev, searched, writer, fetched, outstanding>>
  /\ UNCHANGED notRunVars

\* if (faCache.has(cacheKey)) return faCache.get(cacheKey)
ReturnCached ==
  /\ pc = "query" /\ qi <= Len(queries)
  /\ thisKey \in DOMAIN faCache
  /\ ret' = faCache[thisKey]
  /\ pc' = "returned"
  /\ UNCHANGED <<faCache, site, failures, calls, args, queries, qi, faUrls, ki, bestSt, slept,
                 rev, searched, writer, fetched, prev, outstanding>>
  /\ UNCHANGED notRunVars

\* the return after the loop
ReturnExhausted ==
  /\ pc = "query" /\ qi > Len(queries)
  /\ ret' = NoResult
  /\ pc' = "returned"
  /\ UNCHANGED <<faCache, site, failures, calls, args, queries, qi, faUrls, ki, bestSt, slept,
                 rev, searched, writer, fetched, prev, outstanding>>
  /\ UNCHANGED notRunVars

\* the milliseconds of the sleep before the search request
searchDelay == IF rev = "first" THEN 350 ELSE 250

\* the detail request sent without a sleep of its own
unthrottled == slept

\* the milliseconds of the sleep before a detail request
detailDelay == IF rev = "first" THEN 350 ELSE IF rev = "second" THEN 250 ELSE 200

\* await sleep(250), sleep(350) in the first revision; the search request
\* is sent when it is over
Sleep250 ==
  /\ pc = "query" /\ qi <= Len(queries)
  /\ thisKey \notin DOMAIN faCache
  /\ slept' = searchDelay
  /\ pc' = "search"
  /\ outstanding' = outstanding + 1
  /\ UNCHANGED <<faCache, site, failures, calls, args, queries, qi, faUrls, ki, bestSt, ret,
                 rev, searched, writer, fetched, prev>>
  /\ UNCHANGED notRunVars

\* one more search for the query and the item type of this iteration
oneMore(counts, k) ==
  [x \in (DOMAIN counts) \cup {k} |->
     IF x # k THEN counts[x] ELSE IF k \in DOMAIN counts THEN counts[k] + 1 ELSE 1]

\* from the answer of the search to the next await; without candidates the
\* first revision returns, the later ones cache the all-null result and go on
Searched(urls) ==
  /\ slept' = 0
  /\ fetched' = 0
  /\ outstanding' = outstanding - 1
  /\ searched' = oneMore(searched, <<queries[qi], args.type>>)
  /\ IF urls = <<>>
     THEN IF rev = "first"
          THEN /\ ret' = NoResult /\ pc' = "returned"
               /\ UNCHANGED <<faCache, writer, qi, faUrls, ki, bestSt>>
          ELSE /\ faCache' = cacheSet(faCache, thisKey, NoResult)
               /\ writer' = cacheSet(writer, thisKey, args.type)
               /\ qi' = qi + 1 /\ pc' = "query"
               /\ UNCHANGED <<faUrls, ki, bestSt, ret>>
     ELSE /\ faUrls' = urls /\ ki' = 1 /\ bestSt' = NoBest
          /\ pc' = "candidate"
          /\ UNCHANGED <<faCache, writer, qi, ret>>
  /\ UNCHANGED <<site, calls, args, queries, rev, prev>>
  /\ UNCHANGED notRunVars

\* faFindTitleUrl(query) of scripts/build-latest.mjs when the search page
\* was read: uniq[0], or no URL
faFindTitleUrl(links) == SubSeq(links, 1, IF Len(links) < 1 THEN Len(links) ELSE 1)

\* const faUrls = await faFindTitleUrls(q, 8), the search page read
Search ==
  /\ pc = "search"
  /\ Searched(IF rev = "latest" THEN faFindTitleUrls(site[queries[qi]])
              ELSE faFindTitleUrl(site[queries[qi]]))
  /\ UNCHANGED failures

\* the same, the response not ok: faFetch returns null
SearchFails ==
  /\ pc = "search"
  /\ failures < MaxFailures
  /\ failures' = failures + 1
  /\ Searched(<<>>)

\* await sleep(200), sleep(250) in the second revision and sleep(350) in the
\* first; the detail request is sent when it is over
Sleep200 ==
  /\ pc = "candidate"
  /\ slept' = detailDelay
  /\ pc' = "detail"
  /\ outstanding' = outstanding + 1
  /\ UNCHANGED <<faCache, site, failures, calls, args, queries, qi, faUrls, ki, bestSt, ret,
                 rev, searched, writer, fetched, prev>>
  /\ UNCHANGED notRunVars

\* res of the one candidate of scripts/build-latest.mjs: the second revision
\* keeps the title of the page, the first one only the rating
resultOfPage(page, faUrl) ==
  [fa |-> page.fa, faUrl |-> faUrl,
   faTitle |-> (IF rev = "second" /\ Truthy(page.faTitle) THEN page.faTitle ELSE NullStr),
   faType |-> Null]

\* from the answer of faGetRatingFromTitlePage to the next await: the rest of
\* the candidate's iteration and, after the last candidate, the end of the
\* query's iteration
Detailed(page) ==
  LET st == candidateStep(args.es, args.orig, queries[qi], args.year, args.desiredType,
                          bestSt, page, faUrls[ki])
      res == IF rev = "latest" THEN resultOfBest(st) ELSE resultOfPage(page, faUrls[ki])
  IN /\ slept' = 0
     /\ outstanding' = outstanding - 1
     /\ IF rev = "first"
        THEN /\ ret' = res /\ pc' = "returned"
             /\ faUrls' = <<>> /\ ki' = 0
             /\ UNCHANGED <<faCache, writer, qi, bestSt>>
        ELSE IF rev = "latest" /\ ki < Len(faUrls)
        THEN /\ bestSt' = st /\ ki' = ki + 1 /\ pc' = "candidate"
             /\ UNCHANGED <<faCache, writer, qi, faUrls, ret>>
        ELSE /\ faCache' = cacheSet(faCache, thisKey, res)
             /\ writer' = cacheSet(writer, thisKey, args.type)
             /\ faUrls' = <<>> /\ ki' = 0 /\ bestSt' = NoBest
             /\ IF isHit(res)
                THEN ret' = res /\ pc' = "returned" /\ UNCHANGED qi
                ELSE qi' = qi + 1 /\ pc' = "query" /\ UNCHANGED ret
     /\ UNCHANGED <<site, calls, args, queries, rev, searched, prev>>
     /\ UNCHANGED notRunVars

\* const cand = await faGetRatingFromTitlePage(faUrl), the page read
Detail ==
  /\ pc = "detail"
  /\ fetched' = fetched + 1
  /\ Detailed(faGetRatingFromTitlePage(SitePages[faUrls[ki]]))
  /\ UNCHANGED failures

\* the same, the response not ok
DetailFails ==
  /\ pc = "detail"
  /\ failures < MaxFailures
  /\ failures' = failures + 1
  /\ UNCHANGED fetched
  /\ Detailed(NoDataPage)

RunNext ==
  \/ Call \/ ReturnCached \/ ReturnExhausted \/ Sleep250
  \/ Search \/ SearchFails \/ Sleep200 \/ Detail \/ DetailFails

(***************************************************************************)
(* Scoring: computeFinal and coverage.  A rating on the 0-10 scale is held  *)
(* in tenths as the sources give it (7.8 is 78), a percentage in points;    *)
(* the values computeFinal maps them to, and its result, are in hundredths  *)
(* of a point (7.8 is 780, 85% is 850).  A weight is in eighths.            *)
(***************************************************************************)
\* const WEIGHTS, in eighths
WEIGHTS == [fa |-> 2, imdb |-> 2, rtCrit |-> 1, rtAud |-> 1, mcCrit |-> 1, mcUser |-> 1]

\* the keys of WEIGHTS in the order of for (const k in WEIGHTS)
WeightKeys == <<"fa", "imdb", "rtCrit", "rtAud", "mcCrit", "mcUser">>

\* typeof x === "number" ? x : null, of a rating in tenths, in hundredths
numberOrNull(x) == IF x = NullNum THEN NullNum ELSE x * 10

\* to10: x100 / 10 of a percentage, in hundredths of a point
to10(x100) == IF x100 = NullNum THEN NullNum ELSE (x100 * 100) \div 10

\* const mapped
mappedOf(x) ==
  [fa |-> numberOrNull(x.fa), imdb |-> numberOrNull(x.imdb),
   rtCrit |-> to10(x.rtCrit), rtAud |-> to10(x.rtAud), mcCrit |-> to10(x.mcCrit),
   mcUser |-> numberOrNull(x.mcUser)]

\* the keys with mapped[k] != null, had the test been the truthiness of mapped[k]
presentTruthy(mapped) ==
  { i \in 1..Len(WeightKeys) : mapped[WeightKeys[i]] # NullNum /\ mapped[WeightKeys[i]] # 0 }

\* the keys with mapped[k] != null, as indexes of WeightKeys
present(mapped) == { i \in 1..Len(WeightKeys) : mapped[WeightKeys[i]] # NullNum }

\* the sum of f over the keys of a set of keys
RECURSIVE sumOver(_, _)
sumOver(f, keys) ==
  IF keys = {} THEN 0
  ELSE LET i == CHOOSE j \in keys : TRUE IN f[i] + sumOver(f, keys \ {i})

\* let wsum: the weights of the keys present, in eighths
wsumOf(mapped) == sumOver([i \in 1..Len(WeightKeys) |-> WEIGHTS[WeightKeys[i]]], present(mapped))

\* let total, had the weights not been divided by wsum
weightedTotalOfAll(mapped, wsum) ==
  [num |-> sumOver([i \in 1..Len(WeightKeys) |-> WEIGHTS[WeightKeys[i]] * mapped[WeightKeys[i]]],
                   present(mapped)),
   den |-> 8]

\* let total: the sum of (WEIGHTS[k] / wsum) * mapped[k], an exact fraction of hundredths
weightedTotal(mapped, wsum) ==
  [num |-> sumOver([i \in 1..Len(WeightKeys) |-> WEIGHTS[WeightKeys[i]] * mapped[WeightKeys[i]]],
                   present(mapped)),
   den |-> wsum]

\* Math.round(total * 100) of a total that is num/den hundredths.  The code
\* adds the terms in double precision, so a total that is exactly halfway
\* between two hundredths may reach Math.round from either side; anywhere
\* else the error of the doubles is far below the distance to the halfway point.
mathRound(t) ==
  LET q == t.num \div t.den
      r == t.num % t.den
  IN  IF 2 * r < t.den THEN {q}
      ELSE IF 2 * r > t.den THEN {q + 1}
      ELSE {q, q + 1}

\* computeFinal(x): the values it can return, null or hundredths of a point
computeFinal(x) ==
  LET mapped == mappedOf(x)
      wsum == wsumOf(mapped)
  IN  IF wsum = 0 THEN {NullNum}
      ELSE mathRound(weightedTotal(mapped, wsum))

\* the keys of coverage(x)
CoverageKeys == <<"fa", "imdb", "rtCrit", "rtAud", "mcCrit", "mcUser">>

\* let have of coverage(x)
haveOf(x) == Cardinality({ i \in 1..Len(CoverageKeys) : x[CoverageKeys[i]] # NullNum })

\* coverage(x): the string `${have}/6`
coverage(x) == digitsOf(haveOf(x)) \o <<"/">> \o digitsOf(Len(CoverageKeys))

\* the signals an item can carry: FilmAffinity and IMDb ratings in tenths,
\* percentages in points, null for an absent one
AggItems ==
  [fa : {NullNum, 0, 65, 78}, imdb : {NullNum, 79}, rtCrit : {NullNum, 85},
   rtAud : {NullNum, 80}, mcCrit : {NullNum, 71}, mcUser : {NullNum, 66}]

NoAgg == [final |-> NullNum, coverage |-> NullStr]

AggInit ==
  /\ aggX \in AggItems
  /\ aggOut = NoAgg
  /\ aggPc = "input"

AggIdle ==
  /\ aggX = [fa |-> NullNum, imdb |-> NullNum, rtCrit |-> NullNum, rtAud |-> NullNum,
             mcCrit |-> NullNum, mcUser |-> NullNum]
  /\ aggOut = NoAgg
  /\ aggPc = "idle"

\* item.final = computeFinal(item)
ComputeFinal ==
  /\ aggPc = "input"
  /\ \E f \in computeFinal(aggX) : aggOut' = [aggOut EXCEPT !.final = f]
  /\ aggPc' = "final"
  /\ UNCHANGED aggX
  /\ UNCHANGED notAggVars

\* item.coverage = coverage(item)
Coverage ==
  /\ aggPc = "final"
  /\ aggOut' = [aggOut EXCEPT !.coverage = coverage(aggX)]
  /\ aggPc' = "covered"
  /\ UNCHANGED aggX
  /\ UNCHANGED notAggVars

AggNext == ComputeFinal \/ Coverage

(***************************************************************************)
(* Ranking: hasCoverage and pickTop.  An enriched item is [id, fa, imdb,    *)
(* tmdb, final, coverage]: fa, imdb and tmdb in tenths of a point, final in *)
(* hundredths, coverage the string coverage() made.  An output item has a   *)
(* rank as well.                                                           *)
(***************************************************************************)
\* the length of the run of digits of s that starts at i
RECURSIVE digitRun(_, _)
digitRun(s, i) ==
  IF i > Len(s) \/ s[i] \notin Range(DigitChars) THEN 0 ELSE 1 + digitRun(s, i + 1)

\* the length of the run of white space (\s*) of s that starts at i
RECURSIVE spaceRun(_, _)
spaceRun(s, i) ==
  IF i > Len(s) \/ s[i] \notin Whitespace THEN 0 ELSE 1 + spaceRun(s, i + 1)

\* Number(m[1]) of a string of digits
RECURSIVE numberOfDigits(_)
numberOfDigits(s) ==
  IF s = <<>> THEN 0
  ELSE 10 * numberOfDigits(SubSeq(s, 1, Len(s) - 1)) + (IndexOf(DigitChars, s[Len(s)]) - 1)

\* c.match(/^(\d+)\s*\/\s*(\d+)$/): m[1], or NullStr when there is no match
coverageMatch(c) ==
  LET d1 == digitRun(c, 1)
      slash == 1 + d1 + spaceRun(c, 1 + d1)
      second == slash + 1 + spaceRun(c, slash + 1)
      d2 == digitRun(c, second)
  IN  IF /\ d1 > 0
         /\ slash <= Len(c) /\ c[slash] = "/"
         /\ d2 > 0
         /\ second + d2 = Len(c) + 1
      THEN SubSeq(c, 1, d1)
      ELSE NullStr

\* hasCoverage(item)
hasCoverage(x) ==
  LET c == trim(IF x.coverage = NullStr THEN <<>> ELSE x.coverage)
      m == coverageMatch(c)
  IN  IF m = NullStr THEN FALSE ELSE numberOfDigits(m) > 0

\* the filter of pickTop in the first revision of scripts/build-latest.mjs
admittedFirst(x) ==
  \/ x.final # NullNum /\ x.final >= 100
  \/ x.imdb # NullNum /\ x.imdb >= 10
  \/ x.fa # NullNum /\ x.fa >= 10
  \/ x.tmdb # NullNum /\ x.tmdb >= 10

\* b.final ?? b.imdb ?? b.fa ?? b.tmdb ?? 0 of the first revision, in hundredths
sortKeyFirst(x) ==
  IF x.final # NullNum THEN x.final
  ELSE IF x.imdb # NullNum THEN x.imdb * 10
  ELSE IF x.fa # NullNum THEN x.fa * 10
  ELSE IF x.tmdb # NullNum THEN x.tmdb * 10
  ELSE 0

\* b.final ?? b.imdb ?? b.fa ?? 0, in hundredths
sortKey(x) ==
  IF x.final # NullNum THEN x.final
  ELSE IF x.imdb # NullNum THEN x.imdb * 10
  ELSE IF x.fa # NullNum THEN x.fa * 10
  ELSE 0

\* items.filter(keep), keep a function from items to BOOLEAN
RECURSIVE filterSeq(_, _)
filterSeq(items, keep) ==
  IF items = <<>> THEN <<>>
  ELSE (IF keep[Head(items)] THEN <<Head(items)>> ELSE <<>>) \o filterSeq(Tail(items), keep)

\* a sorted list with x put before the items that do not come before it
insertBeforeEqual(sorted, x, key) ==
  LET before == { i \in 1..Len(sorted) : key[sorted[i]] > key[x] }
      k == Cardinality(before)
  IN  SubSeq(sorted, 1, k) \o <<x>> \o SubSeq(sorted, k + 1, Len(sorted))

\* a sorted list with x put after the items the comparator does not put
\* after it: key[b] - key[a] <= 0 keeps a before b
insertSorted(sorted, x, key) ==
  LET before == { i \in 1..Len(sorted) : key[sorted[i]] >= key[x] }
      k == Cardinality(before)
  IN  SubSeq(sorted, 1, k) \o <<x>> \o SubSeq(sorted, k + 1, Len(sorted))

\* items as the sort left them, had sort done nothing
unsorted(items, key) == items

\* items.sort((a, b) => key(b) - key(a)): Array.prototype.sort is stable
RECURSIVE sortByKey(_, _)
sortByKey(items, key) ==
  IF items = <<>> THEN <<>>
  ELSE insertSorted(sortByKey(SubSeq(items, 1, Len(items) - 1), key), items[Len(items)], key)

\* .slice(0, n)
slice0(items, n) == SubSeq(items, 1, IF n < Len(items) THEN n ELSE Len(items))

\* .map((x, idx) => ({ rank: idx + 1, ...x }))
withRank(items) == [idx \in 1..Len(items) |-> [rank |-> idx] @@ items[idx]]

\* pickTop(items, n) of the first revision of scripts/build-latest.mjs
pickTopFirst(items, n) ==
  LET all == Range(items) IN
  withRank(slice0(sortByKey(filterSeq(items, [x \in all |-> admittedFirst(x)]),
                            [x \in all |-> sortKeyFirst(x)]), n))

\* pickTop(items, n)
pickTop(items, n) ==
  LET all == Range(items) IN
  withRank(slice0(sortByKey(filterSeq(items, [x \in all |-> hasCoverage(x)]),
                            [x \in all |-> sortKey(x)]), n))

\* the items a build can hold, at most this many in a list
MaxItems == 3

\* the signals of an item of a build: rt and mc are always null there
signalsOf(fa, imdb) ==
  [fa |-> fa, imdb |-> imdb, rtCrit |-> NullNum, rtAud |-> NullNum, mcCrit |-> NullNum,
   mcUser |-> NullNum]

\* the enriched item of id i with these ratings: final and coverage as the
\* builds compute them
enriched(i, fa, imdb, tmdb) ==
  [id |-> i, fa |-> fa, imdb |-> imdb, tmdb |-> tmdb,
   final |-> CHOOSE f \in computeFinal(signalsOf(fa, imdb)) : TRUE,
   coverage |-> coverage(signalsOf(fa, imdb))]

\* the enriched items of id i
EnrichedItems(i) ==
  { enriched(i, r[1], r[2], r[3]) : r \in {NullNum, 65, 78} \X {NullNum, 65} \X {NullNum, 70} }

\* the lists of enriched items, the item at position i of id i
RECURSIVE EnrichedLists(_)
EnrichedLists(len) ==
  IF len = 0 THEN {<<>>}
  ELSE { Append(l, x) : l \in EnrichedLists(len - 1), x \in EnrichedItems(len) }

\* the values of n: pickTop(enriched, 5) of the builds, and shorter lists
TopSizes == {0, 1, 2, 5}

TopRevisions == {"first", "latest"}

TopInit ==
  /\ \E len \in 0..MaxItems : topItems \in EnrichedLists(len)
  /\ topN \in TopSizes
  /\ topRev \in TopRevisions
  /\ topOut = <<>>
  /\ topPc = "input"

TopIdle ==
  /\ topItems = <<>>
  /\ topN = 0
  /\ topRev = "latest"
  /\ topOut = <<>>
  /\ topPc = "idle"

\* return pickTop(enriched, n), first revision of scripts/build-latest.mjs
PickTopFirst ==
  /\ topPc = "input"
  /\ topRev = "first"
  /\ topOut' = pickTopFirst(topItems, topN)
  /\ topPc' = "done"
  /\ UNCHANGED <<topItems, topN, topRev>>
  /\ UNCHANGED notTopVars

\* return pickTop(enriched, n)
PickTop ==
  /\ topPc = "input"
  /\ topRev = "latest"
  /\ topOut' = pickTop(topItems, topN)
  /\ topPc' = "done"
  /\ UNCHANGED <<topItems, topN, topRev>>
  /\ UNCHANGED notTopVars

TopNext == PickTopFirst \/ PickTop

(***************************************************************************)
(* The release window: isInLastDays of the build and                        *)
(* isInSpainReleaseWindow of modules/rules.js.  A time is a number of       *)
(* minutes since 1970-01-01T00:00Z; an invalid Date is NaN.                 *)
(***************************************************************************)
\* 1000 * 60 * 60 * 24 milliseconds, in minutes
MinutesPerDay == 1440

\* the number of the digits s[i..j], or NaN when one of them is no digit
digitsAt(s, i, j) ==
  IF \A k \in i..j : s[k] \in Range(DigitChars) THEN numberOfDigits(SubSeq(s, i, j)) ELSE NaN

\* the days of month m of year y
daysInMonth(y, m) ==
  IF m = 2 THEN (IF (y % 4 = 0 /\ y % 100 # 0) \/ y % 400 = 0 THEN 29 ELSE 28)
  ELSE IF m \in {4, 6, 9, 11} THEN 30
  ELSE 31

\* the day number of the date y-m-d, day 0 being 1970-01-01, as Date counts days
daysFromCivil(y, m, d) ==
  LET yy == IF m <= 2 THEN y - 1 ELSE y
      era == yy \div 400
      yoe == yy - era * 400
      mp == IF m > 2 THEN m - 3 ELSE m + 9
      doy == (153 * mp + 2) \div 5 + d - 1
      doe == yoe * 365 + yoe \div 4 - yoe \div 100 + doy
  IN  era * 146097 + doe - 719468

\* new Date(s + "T00:00:00" + zone).getTime() of the string s, in minutes;
\* offset is the minutes the zone of the string is ahead of UTC
dateTimeOf(s, offset) ==
  IF Len(s) # 10 \/ s[5] # "-" \/ s[8] # "-" THEN NaN
  ELSE LET y == digitsAt(s, 1, 4)
           m == digitsAt(s, 6, 7)
           d == digitsAt(s, 9, 10)
       IN  IF y = NaN \/ m = NaN \/ d = NaN THEN NaN
           ELSE IF m < 1 \/ m > 12 \/ d < 1 \/ d > daysInMonth(y, m) THEN NaN
           ELSE daysFromCivil(y, m, d) * MinutesPerDay - offset

\* parseISODate(iso) of the build: the first ten characters, at midnight UTC
parseISODate(iso) ==
  IF iso = NullStr \/ iso = <<>> THEN NaN
  ELSE dateTimeOf(SubSeq(iso, 1, IF Len(iso) < 10 THEN Len(iso) ELSE 10), 0)

\* parseISODate(iso) of modules/rules.js: the string, at midnight of the
\* zone of the host, which is tz hours ahead of UTC
parseISODateLocal(iso, tz) ==
  IF iso = NullStr \/ iso = <<>> THEN NaN
  ELSE dateTimeOf(iso, tz * 60)

\* if (!d) return false; diffDays >= 0 && diffDays <= days
insideWindow(d, days, now) ==
  IF d = NaN THEN FALSE
  ELSE (now - d) >= 0 /\ (now - d) <= days * MinutesPerDay

\* isInLastDays(isoDate, days, now)
isInLastDays(isoDate, days, now) == insideWindow(parseISODate(isoDate), days, now)

\* isInSpainReleaseWindow(item, days, now) on a host tz hours ahead of UTC
isInSpainReleaseWindow(x, days, now, tz) ==
  insideWindow(parseISODateLocal(x.releaseDateES, tz), days, now)

\* release dates: absent, empty, not a date, and dates around the window
Date20231201 == <<"2","0","2","3","-","1","2","-","0","1">>
Date20231227 == <<"2","0","2","3","-","1","2","-","2","7">>
Date20240101 == <<"2","0","2","4","-","0","1","-","0","1">>
Date20240110 == <<"2","0","2","4","-","0","1","-","1","0">>
Date20240111 == <<"2","0","2","4","-","0","1","-","1","1">>
Date20240229 == <<"2","0","2","4","-","0","2","-","2","9">>
NotADate == <<"T","B","A">>
ReleaseDates ==
  {NullStr, <<>>, NotADate, Date20231201, Date20231227, Date20240101, Date20240110,
   Date20240111, Date20240229}

\* the times of a build or a visit: 2024-01-10 and 2024-03-14, at midnight
\* UTC, half an hour before and after it, and at noon
Nows ==
  { daysFromCivil(2024, 1, 10) * MinutesPerDay + m : m \in {0 - 30, 0, 30, 720} }
  \cup { daysFromCivil(2024, 3, 14) * MinutesPerDay + m : m \in {0 - 30, 0, 30} }

\* the window of the build, const days = 14 by default, and an empty one
WindowDays == {0, 14}

\* the zones of the host: UTC, and Spain in winter and in summer
Zones == {0, 1, 2}

WindowFunctions == {"isInLastDays", "isInSpainReleaseWindow"}

NoWin == "none"

WinInit ==
  /\ winIso \in ReleaseDates
  /\ winDays \in WindowDays
  /\ winNow \in Nows
  /\ winTz \in Zones
  /\ winFn \in WindowFunctions
  /\ winOut = NoWin
  /\ winPc = "input"

WinIdle ==
  /\ winIso = NullStr
  /\ winDays = 0
  /\ winNow = 0
  /\ winTz = 0
  /\ winFn = "isInLastDays"
  /\ winOut = NoWin
  /\ winPc = "idle"

\* isInLastDays(es.releaseES, days, now)
IsInLastDays ==
  /\ winPc = "input"
  /\ winFn = "isInLastDays"
  /\ winOut' = (IF isInLastDays(winIso, winDays, winNow) THEN "true" ELSE "false")
  /\ winPc' = "done"
  /\ UNCHANGED <<winIso, winDays, winNow, winTz, winFn>>
  /\ UNCHANGED notWinVars

\* isInSpainReleaseWindow({releaseDateES}, days, now)
IsInSpainReleaseWindow ==
  /\ winPc = "input"
  /\ winFn = "isInSpainReleaseWindow"
  /\ winOut' = (IF isInSpainReleaseWindow([releaseDateES |-> winIso], winDays, winNow, winTz)
                THEN "true" ELSE "false")
  /\ winPc' = "done"
  /\ UNCHANGED <<winIso, winDays, winNow, winTz, winFn>>
  /\ UNCHANGED notWinVars

WinNext == IsInLastDays \/ IsInSpainReleaseWindow

(***************************************************************************)
(* The build: buildMoviesES and buildSeriesES of part_001 ("latest") and of *)
(* the second revision in scripts/build-latest.mjs ("second"), one network  *)
(* call at a step.  What the services answer for a title is a catalog       *)
(* entry [id, releaseES, platforms, inCinemasES, imdb, fa, tmdb]; a         *)
(* response that is not ok is a choice at the step of the call.  The        *)
(* candidate search inside getFARating is the subject of Spec; here the     *)
(* call gives the rating of the entry, or null when its requests fail.      *)
(***************************************************************************)
\* results.slice(0, 18)
ResultsLimit == 18

\* pickTop(enriched, 5)
TopN == 5

\* isInLastDays(es.releaseES, 14, now)
SeriesWindowDays == 14

\* the titles of a catalog, at most
MaxTitles == 2

\* the responses that are not ok in a run, at most
MaxFaults == 1

\* computeFinal(item) ?? item.imdb ?? item.fa ?? null, had tmdb been a last resort
finalOrTmdb(x) ==
  { IF f # NullNum THEN f
    ELSE IF x.imdb # NullNum THEN x.imdb * 10
    ELSE IF x.fa # NullNum THEN x.fa * 10
    ELSE IF x.tmdb # NullNum THEN x.tmdb * 10
    ELSE NullNum : f \in computeFinal(signalsOf(x.fa, x.imdb)) }

\* computeFinal(item) ?? item.imdb ?? item.fa ?? null: the values it can have
finalOf(x) ==
  { IF f # NullNum THEN f
    ELSE IF x.imdb # NullNum THEN x.imdb * 10
    ELSE IF x.fa # NullNum THEN x.fa * 10
    ELSE NullNum : f \in computeFinal(signalsOf(x.fa, x.imdb)) }

\* what the services know of the title of id i
CatalogEntries(i) ==
  { [id |-> i, releaseES |-> r[1][1], platforms |-> r[1][2], inCinemasES |-> r[1][3],
     imdb |-> r[2], fa |-> r[3], tmdb |-> 70] :
      r \in { <<NullStr, 0, FALSE>>, <<NullStr, 1, FALSE>>, <<Date20231201, 1, FALSE>>,
              <<Date20240101, 1, FALSE>>, <<Date20240101, 0, TRUE>> }
            \X {NullNum, 79} \X {NullNum, 65} }

\* the catalogs of len titles, the title at position i of id i
RECURSIVE Catalogs(_)
Catalogs(len) ==
  IF len = 0 THEN {<<>>}
  ELSE { Append(l, x) : l \in Catalogs(len - 1), x \in CatalogEntries(len) }

\* the item of the iteration before any call of it
NoItem ==
  [id |-> 0, releaseES |-> NullStr, platforms |-> 0, inCinemasES |-> FALSE,
   imdb |-> NullNum, fa |-> NullNum, tmdb |-> NullNum, final |-> NullNum,
   coverage |-> NullStr]

BuildInit ==
  /\ bRev \in {"second", "latest"}
  /\ bKind \in {"movies", "series"}
  /\ bNow = daysFromCivil(2024, 1, 10) * MinutesPerDay + 720
  /\ \E len \in 1..MaxTitles : bCatalog \in Catalogs(len)
  /\ bResults = <<>>
  /\ bIdx = 0
  /\ bCur = NoItem
  /\ bEnriched = <<>>
  /\ bOut = <<>>
  /\ bLog = {}
  /\ bFaults = 0
  /\ bPc = "discover"

BuildIdle ==
  /\ bRev = "latest"
  /\ bKind = "movies"
  /\ bNow = 0
  /\ bCatalog = <<>>
  /\ bResults = <<>>
  /\ bIdx = 0
  /\ bCur = NoItem
  /\ bEnriched = <<>>
  /\ bOut = <<>>
  /\ bLog = {}
  /\ bFaults = 0
  /\ bPc = "idle"

\* a response that is not ok
Fault ==
  /\ bFaults < MaxFaults
  /\ bFaults' = bFaults + 1

\* an exception that nothing catches: main() rejects
Throws ==
  /\ bPc' = "aborted"
  /\ UNCHANGED <<bRev, bKind, bNow, bCatalog, bResults, bIdx, bCur, bEnriched, bOut>>
  /\ UNCHANGED notBuildVars

\* the start of the iteration for the title after position i, or the end of the loop
NextTitle(i, results) ==
  /\ bIdx' = i + 1
  /\ bPc' = IF i + 1 > Len(results) THEN "rank" ELSE "details"

\* const page1 = await tmdb("discover/..."); results = page1.results.slice(0, 18)
Discover ==
  /\ bPc = "discover"
  /\ bResults' = slice0(bCatalog, ResultsLimit)
  /\ NextTitle(0, slice0(bCatalog, ResultsLimit))
  /\ bLog' = bLog \cup {<<"discover", 0>>}
  /\ UNCHANGED <<bRev, bKind, bNow, bCatalog, bCur, bEnriched, bOut, bFaults>>
  /\ UNCHANGED notBuildVars

\* the same, the response not ok: tmdb throws
DiscoverFails ==
  /\ bPc = "discover"
  /\ Fault
  /\ bLog' = bLog \cup {<<"discover", 0>>}
  /\ Throws

\* hasES of buildMoviesES, hasESPlatforms and the window of buildSeriesES
passesGates(es) ==
  IF bKind = "movies"
  THEN es.releaseES # NullStr \/ es.platforms > 0 \/ es.inCinemasES
  ELSE /\ es.platforms > 0
       /\ bRev = "latest" => isInLastDays(es.releaseES, SeriesWindowDays, bNow)

\* the rest of the iteration after getMovieESDetails or getSeriesESDetails
\* returned es: the gates, and on to the external ids or to the next title
DetailsReturned(es) ==
  /\ bLog' = bLog \cup {<<"details", es.id>>}
  /\ IF passesGates(es)
     THEN /\ bCur' = es
          /\ bPc' = "external_ids"
          /\ UNCHANGED bIdx
     ELSE /\ bCur' = NoItem
          /\ NextTitle(bIdx, bResults)
  /\ UNCHANGED <<bRev, bKind, bNow, bCatalog, bResults, bEnriched, bOut>>
  /\ UNCHANGED notBuildVars

\* what the details calls give for a catalog entry when all of them answer
detailsOf(e) ==
  [id |-> e.id, releaseES |-> e.releaseES, platforms |-> e.platforms,
   inCinemasES |-> (bKind = "movies" /\ e.inCinemasES),
   imdb |-> NullNum, fa |-> NullNum, tmdb |-> e.tmdb, final |-> NullNum,
   coverage |-> NullStr]

\* const es = await getMovieESDetails(m.id), every call of it answered
Details ==
  /\ bPc = "details"
  /\ UNCHANGED bFaults
  /\ DetailsReturned(detailsOf(bResults[bIdx]))

\* the same, the first call (movie/{id} or tv/{id}) not ok: tmdb throws
DetailsFails ==
  /\ bPc = "details"
  /\ Fault
  /\ bLog' = bLog \cup {<<"details", bResults[bIdx].id>>}
  /\ Throws

\* the same, the release_dates call of a movie not ok: catch {} keeps
\* d.release_date and inCinemasES = false
ReleaseDatesFail ==
  /\ bPc = "details"
  /\ bKind = "movies"
  /\ Fault
  /\ DetailsReturned([detailsOf(bResults[bIdx]) EXCEPT !.inCinemasES = FALSE])

\* the same, the watch/providers call not ok: catch {} keeps platforms = []
ProvidersFail ==
  /\ bPc = "details"
  /\ Fault
  /\ DetailsReturned([detailsOf(bResults[bIdx]) EXCEPT !.platforms = 0])

\* const ext = await tmdb(`movie/${m.id}/external_ids`)
ExternalIds ==
  /\ bPc = "external_ids"
  /\ bLog' = bLog \cup {<<"external_ids", bCur.id>>}
  /\ bPc' = "omdb"
  /\ UNCHANGED <<bRev, bKind, bNow, bCatalog, bResults, bIdx, bCur, bEnriched, bOut, bFaults>>
  /\ UNCHANGED notBuildVars

\* the same, the response not ok: tmdb throws
ExternalIdsFails ==
  /\ bPc = "external_ids"
  /\ Fault
  /\ bLog' = bLog \cup {<<"external_ids", bCur.id>>}
  /\ Throws

\* the rest of omdbByImdbId after r.json() gave a body: rating or null
OmdbAnswered(rating) ==
  /\ bLog' = bLog \cup {<<"omdb", bCur.id>>}
  /\ bCur' = [bCur EXCEPT !.imdb = rating]
  /\ bPc' = "getFARating"
  /\ UNCHANGED <<bRev, bKind, bNow, bCatalog, bResults, bIdx, bEnriched, bOut>>
  /\ UNCHANGED notBuildVars

\* const imdb = await omdbByImdbId(imdbId)
Omdb ==
  /\ bPc = "omdb"
  /\ UNCHANGED bFaults
  /\ OmdbAnswered(bResults[bIdx].imdb)

\* the same, the response not ok and its body JSON with Response "False"
OmdbFailsWithJson ==
  /\ bPc = "omdb"
  /\ Fault
  /\ OmdbAnswered(NullNum)

\* the same, the response not ok and its body not JSON: r.json() throws
OmdbFailsWithoutJson ==
  /\ bPc = "omdb"
  /\ Fault
  /\ bLog' = bLog \cup {<<"omdb", bCur.id>>}
  /\ Throws

\* the rest of the iteration after getFARating returned fa: the item, its
\* final and coverage, the coverage gate, the push
Rated(fa) ==
  /\ bLog' = bLog \cup {<<"getFARating", bCur.id>>}
  /\ \E f \in finalOf([bCur EXCEPT !.fa = fa]) :
       bCur' = [bCur EXCEPT !.fa = fa, !.final = f,
                            !.coverage = coverage(signalsOf(fa, bCur.imdb))]
  /\ bEnriched' = IF hasCoverage(bCur') THEN Append(bEnriched, bCur') ELSE bEnriched
  /\ NextTitle(bIdx, bResults)
  /\ UNCHANGED <<bRev, bKind, bNow, bCatalog, bResults, bOut>>
  /\ UNCHANGED notBuildVars

\* const { fa, faUrl, faTitle } = await getFARating({...})
GetFARating ==
  /\ bPc = "getFARating"
  /\ UNCHANGED bFaults
  /\ Rated(bResults[bIdx].fa)

\* the same, a request of it not ok: faFetch returns null, no page, fa null
GetFARatingFails ==
  /\ bPc = "getFARating"
  /\ Fault
  /\ Rated(NullNum)

\* return pickTop(enriched, 5)
Rank ==
  /\ bPc = "rank"
  /\ bOut' = pickTop(bEnriched, TopN)
  /\ bPc' = "done"
  /\ UNCHANGED <<bRev, bKind, bNow, bCatalog, bResults, bIdx, bCur, bEnriched, bLog, bFaults>>
  /\ UNCHANGED notBuildVars

BuildNext ==
  \/ Discover \/ DiscoverFails
  \/ Details \/ DetailsFails \/ ReleaseDatesFail \/ ProvidersFail
  \/ ExternalIds \/ ExternalIdsFails
  \/ Omdb \/ OmdbFailsWithJson \/ OmdbFailsWithoutJson
  \/ GetFARating \/ GetFARatingFails
  \/ Rank

(***************************************************************************)
(* modules/ui_filters.js: mountFilters.  A chip is a button of one of the  *)
(* two groups; its value is what getAttribute("data-value") gives for the  *)
(* attribute the markup was written with.                                  *)
(***************************************************************************)
\* the replacement of one character by esc
entityOf(c) ==
  IF c = "&" THEN <<"&", "a", "m", "p", ";">>
  ELSE IF c = "<" THEN <<"&", "l", "t", ";">>
  ELSE IF c = ">" THEN <<"&", "g", "t", ";">>
  ELSE IF c = "\"" THEN <<"&", "q", "u", "o", "t", ";">>
  ELSE IF c = "'" THEN <<"&", "#", "3", "9", ";">>
  ELSE <<c>>

\* esc(s)
esc(s) == Flatten([i \in DOMAIN s |-> entityOf(s[i])])

\* the characters esc replaces
Escaped == {"&", "<", ">", "\"", "'"}

\* s starts with the character reference of c
startsWithEntity(s, c) ==
  Len(s) >= Len(entityOf(c)) /\ SubSeq(s, 1, Len(entityOf(c))) = entityOf(c)

\* the value of an attribute written as h between double quotes: the
\* character references of the markup decoded
RECURSIVE attributeValue(_)
attributeValue(h) ==
  IF h = <<>> THEN <<>>
  ELSE IF \E c \in Escaped : startsWithEntity(h, c)
  THEN LET c == CHOOSE x \in Escaped : startsWithEntity(h, x) IN
       <<c>> \o attributeValue(SubSeq(h, Len(entityOf(c)) + 1, Len(h)))
  ELSE <<Head(h)>> \o attributeValue(Tail(h))

\* const key = group === "platform" ? "platformsSelected" : "genresSelected"
selectedKey(group) == IF group = "platform" THEN "platformsSelected" ELSE "genresSelected"

\* the options a group's chips are written from
optionsOf(group) == IF group = "platform" THEN fOptions.platforms ELSE fOptions.genres

\* btn.getAttribute("data-value") of the chips of a group, in document order
chipValues(group) == [i \in DOMAIN optionsOf(group) |-> attributeValue(esc(optionsOf(group)[i]))]

Groups == {"platform", "genre"}

\* the chips of the page: the group and the position in it
Chips == { c \in Groups \X (1..Len(fOptions.platforms) + Len(fOptions.genres)) :
             c[2] <= Len(optionsOf(c[1])) }

\* arr.indexOf(value), counted from 1; 0 for -1
indexOf(arr, value) ==
  IF \E i \in DOMAIN arr : arr[i] = value
  THEN CHOOSE i \in DOMAIN arr : arr[i] = value /\ \A j \in 1..(i - 1) : arr[j] # value
  ELSE 0

\* arr.splice(idx, 1)
splice(arr, idx) == SubSeq(arr, 1, idx - 1) \o SubSeq(arr, idx + 1, Len(arr))

\* toggle(group, value), had it pushed the value whether selected or not
pushAlways(state, group, value) ==
  [state EXCEPT ![selectedKey(group)] = Append(@, value)]

\* toggle(group, value): state after it
toggle(state, group, value) ==
  LET arr == state[selectedKey(group)]
      idx == indexOf(arr, value)
  IN [state EXCEPT ![selectedKey(group)] =
        IF idx > 0 THEN splice(arr, idx) ELSE Append(arr, value)]

\* { platformsSelected: [], genresSelected: [] }
NoneSelected == [platformsSelected |-> <<>>, genresSelected |-> <<>>]

\* the clicks handled in a run, at most
MaxClicks == 4

\* names of platforms and genres, each list as uniqSorted returns it
AandE == <<"A", "&", "E">>
Max == <<"M", "a", "x">>
Drama == <<"D", "r", "a", "m", "a">>
SciFi == <<"S", "c", "i", "'", "F", "i">>
FilterOptions ==
  { [platforms |-> ps, genres |-> gs] :
      ps \in {<<AandE>>, <<AandE, Max>>},
      gs \in {<<Drama>>, <<AandE, Drama>>, <<Drama, SciFi>>} }

NoClick == [kind |-> "none", group |-> Null, chip |-> 0]
NoClicks == [c \in Chips |-> 0]

FilterInit ==
  /\ fOptions \in FilterOptions
  /\ fState = NoneSelected
  /\ fArg = NoneSelected
  /\ fCalls = 0
  /\ fClicks = [c \in {} |-> 0]
  /\ fLast = NoClick
  /\ fEvents = 0
  /\ fPc = "unmounted"

FilterIdle ==
  /\ fOptions = [platforms |-> <<>>, genres |-> <<>>]
  /\ fState = NoneSelected
  /\ fArg = NoneSelected
  /\ fCalls = 0
  /\ fClicks = [c \in {} |-> 0]
  /\ fLast = NoClick
  /\ fEvents = 0
  /\ fPc = "idle"

\* onChange({ ...state }) with the state the handler leaves
OnChange ==
  /\ fArg' = fState'
  /\ fCalls' = fCalls + 1

\* mountFilters(mountEl, options, onChange): the markup, the listener,
\* syncUI() and the first onChange
MountFilters ==
  /\ fPc = "unmounted"
  /\ fState' = NoneSelected
  /\ OnChange
  /\ fClicks' = NoClicks
  /\ fPc' = "mounted"
  /\ UNCHANGED <<fOptions, fLast, fEvents>>
  /\ UNCHANGED notFilterVars

\* a click is handled
Clicked(kind, group, chip) ==
  /\ fPc = "mounted"
  /\ fEvents < MaxClicks
  /\ fEvents' = fEvents + 1
  /\ fLast' = [kind |-> kind, group |-> group, chip |-> chip]
  /\ UNCHANGED <<fOptions, fPc>>
  /\ UNCHANGED notFilterVars

\* the click listener, the target a chip
ClickChip ==
  \E c \in Chips :
    /\ Clicked("chip", c[1], c[2])
    /\ fState' = toggle(fState, c[1], chipValues(c[1])[c[2]])
    /\ OnChange
    /\ fClicks' = [fClicks EXCEPT ![c] = @ + 1]

\* the click listener, the target the button "Limpiar"
ClickClear ==
  /\ Clicked("clear", Null, 0)
  /\ fState' = NoneSelected
  /\ OnChange
  /\ fClicks' = NoClicks

\* the click listener, the target neither a chip nor the button: a label
ClickLabel ==
  /\ Clicked("label", Null, 0)
  /\ UNCHANGED <<fState, fArg, fCalls, fClicks>>

FilterNext == MountFilters \/ ClickChip \/ ClickClear \/ ClickLabel

(***************************************************************************)
(* The title functions as the specification states them (4.1, 4.2)         *)
(***************************************************************************)
Renormalized == strPc \in {"renormalized", "compared"}
Compared == strPc = "compared"

IsOne(sim) == sim.den > 0 /\ sim.num = sim.den
IsZero(sim) == sim.den > 0 /\ sim.num = 0

\* C9: normalize is idempotent: normalize(normalize(x)) = normalize(x) for
\* every input x, also when removing one stoplist token brings two remaining
\* tokens together into another stoplist phrase.
C9_NormalizeIdempotent == Renormalized => strOut.norm2 = strOut.norm1

\* C10 as stated: similarity(a, a) = 1 for any non-empty string a, and
\* similarity(a, "") = 0 for any a.
C10_ReflexiveNonEmpty ==
  Compared =>
    /\ strOut.a # <<>> /\ strOut.b = strOut.a => IsOne(strOut.sim)
    /\ strOut.b = <<>> => IsZero(strOut.sim)

\* C10 amended: similarity(a, a) = 1 for any string a whose normalized form
\* has at least one token, similarity(a, a) = 0 for a string a that
\* normalizes to the empty string, and similarity(a, "") = 0 for any a.
C10_ReflexiveWithTokens ==
  Compared =>
    /\ strOut.b = strOut.a /\ normalizeOf(variant, strOut.a) # <<>> => IsOne(strOut.sim)
    /\ strOut.b = strOut.a /\ normalizeOf(variant, strOut.a) = <<>> => IsZero(strOut.sim)
    /\ strOut.b = <<>> => IsZero(strOut.sim)

\* a title of two tokens compared with itself
C10_Witness ==
  /\ Compared /\ strOut.b = strOut.a
  /\ Cardinality(tokenSet(normalizeOf(variant, strOut.a))) = 2
  /\ IsOne(strOut.sim)

\* the tokens of a normalized string as the specification states them: the
\* maximal runs of characters other than whitespace
statedTokens(s) ==
  { SubSeq(s, p[1], p[2]) :
      p \in { q \in (1..Len(s)) \X (1..Len(s)) :
                /\ q[1] <= q[2]
                /\ \A m \in q[1]..q[2] : s[m] \notin Whitespace
                /\ q[1] = 1 \/ s[q[1] - 1] \in Whitespace
                /\ q[2] = Len(s) \/ s[q[2] + 1] \in Whitespace } }

\* |A \cap B| / |A \cup B|, 0 when either set is empty
statedJaccard(A, B) ==
  IF A = {} \/ B = {} THEN Zero
  ELSE [num |-> Cardinality(A \cap B), den |-> Cardinality(A \cup B)]

\* C11: similarity(a, b) is the Jaccard index of the token sets of the
\* normalized strings, 0 when either set is empty; it is symmetric and lies
\* between 0 and 1.
C11_JaccardOfTokenSets ==
  Compared =>
    /\ FracEq(strOut.sim, statedJaccard(statedTokens(normalizeOf(variant, strOut.a)),
                                        statedTokens(normalizeOf(variant, strOut.b))))
    /\ strOut.sim.den > 0
    /\ FracEq(strOut.sim, strOut.simRev)
    /\ 0 <= strOut.sim.num /\ strOut.sim.num <= strOut.sim.den

\* where the tokens of a normalized string start
tokenStarts(s) ==
  { i \in 1..Len(s) : s[i] \notin Whitespace /\ (i = 1 \/ s[i - 1] \in Whitespace) }

\* two different titles that share one token of two, the first of them with
\* a token it repeats
C11_Witness ==
  /\ Compared /\ strOut.a # strOut.b
  /\ strOut.sim = [num |-> 1, den |-> 2]
  /\ LET na == normalizeOf(variant, strOut.a) IN
     Cardinality(tokenStarts(na)) > Cardinality(statedTokens(na))

(***************************************************************************)
(* The resolver as the specification states it (section 4.3)               *)
(***************************************************************************)
\* the title functions of the resolver that ran
simBy(by, a, b) ==
  IF by = "pickBestFA" THEN tokenSimilarity(a, b) ELSE tokenSimilarityBuild(a, b)
normBy(by, a) == IF by = "pickBestFA" THEN normalizeTitle(a) ELSE normalizeTitleBuild(a)

\* targetTitle: the primary title, the original title when the primary is absent
statedTarget(it) == Or(it.titleEs, it.titleOriginal)

\* the floor in force: opts.minTitleSim of pickBestFA or the default 0.45
statedFloor == IF resOut.by = "pickBestFA" THEN minTitleSimOf(opts) ELSE minSim

statedYearFar(it, c) ==
  it.year # NullNum /\ c.year # NullNum /\ abs(it.year - c.year) > 1

statedReject(it, c) ==
  \/ it.type # Null /\ c.type # Null /\ it.type # c.type
  \/ statedYearFar(it, c)

statedYearBonus(it, c) ==
  IF it.year # NullNum /\ c.year # NullNum /\ it.year = c.year THEN 18
  ELSE IF it.year # NullNum /\ c.year # NullNum /\ abs(it.year - c.year) = 1 THEN 10
  ELSE 0

statedScore(by, it, c) ==
  plusBonus(simBy(by, statedTarget(it), c.title),
    (IF normBy(by, statedTarget(it)) = normBy(by, c.title) THEN 25 ELSE 0)
    + statedYearBonus(it, c)
    + (IF c.rating # NullNum THEN 3 ELSE 0)
    + (IF c.url # Null THEN 2 ELSE 0))

statedSurvivors == { i \in DOMAIN cands : ~statedReject(item, cands[i]) }

Resolved == resPc = "resolved"

\* the item and candidates of the end-to-end example
DuneItem == [titleEs |-> Dune, titleOriginal |-> NullStr, type |-> Null, year |-> 2024]
DuneExample ==
  /\ Resolved /\ resOut.by = "pickBestFA"
  /\ item = DuneItem /\ cands = <<DuneCand2024, DuneCand1984>>

\* C2 as stated: on the end-to-end example the resolver with the default
\* minSimilarity selects the 2024 candidate and returns rating 7.8.
C2_EndToEndSelects2024 ==
  DuneExample /\ opts = NoSim => resOut.best = 1 /\ resOut.res.fa = 78

\* C2 amended: on the end-to-end example the 1984 candidate is hard-rejected
\* and the 2024 candidate is the only survivor, but its similarity to "Dune"
\* is 1/3, so with the default minSimilarity 0.45 the resolver returns null;
\* with a minSimilarity of at most 1/3 (here 0.3) it returns the 2024
\* candidate and rating 7.8.
C2_EndToEndFloor ==
  DuneExample =>
    /\ statedSurvivors = {1}
    /\ simBy("pickBestFA", Dune, DuneParteDos) = [num |-> 1, den |-> 3]
    /\ opts = NoSim => resOut.best = 0 /\ resOut.res = NoResult
    /\ opts # NoSim => resOut.best = 1 /\ resOut.res.fa = 78

C2_Witness == DuneExample /\ opts = NoSim /\ resOut.best = 0

\* C3: a candidate of unknown type is never excluded by the type rule: for an
\* item of known type, an unknown-type candidate that passes the year rule and
\* clears the floor, alone in the list, is selected.
C3_UnknownTypeNotRejected ==
  /\ Resolved /\ Len(cands) = 1
  /\ item.type # Null /\ cands[1].type = Null
  /\ ~statedYearFar(item, cands[1])
  /\ ~FracLt(simBy(resOut.by, statedTarget(item), cands[1].title), statedFloor)
  => resOut.best = 1

\* C4: for a MOVIE item the resolver never returns a SERIES candidate, and for
\* a SERIES item never a MOVIE candidate.
C4_NoTypeMismatchSelected ==
  Resolved /\ resOut.best # 0 =>
    /\ item.type = "movie" => cands[resOut.best].type # "series"
    /\ item.type = "series" => cands[resOut.best].type # "movie"

\* a mismatched candidate with the exact title and year is first in the list,
\* and the resolver returned the candidate after it
C4_Witness ==
  /\ Resolved /\ item.type = "movie" /\ Len(cands) = 2
  /\ cands[1].type = "series" /\ cands[1].title = Dune /\ cands[1].year = item.year
  /\ resOut.best = 2

\* C5: the resolver returns null whenever every maximum-score candidate among
\* the survivors of hard-reject has title similarity below the floor, also
\* when a lower-scoring survivor clears it (stated for the build's resolver).
C5_FloorAfterRanking ==
  /\ Resolved /\ resOut.by = "getFARating"
  /\ statedSurvivors # {}
  /\ \A i \in statedSurvivors :
       (\A j \in statedSurvivors :
          ~FracLt(statedScore(resOut.by, item, cands[i]),
                  statedScore(resOut.by, item, cands[j])))
       => FracLt(simBy(resOut.by, statedTarget(item), cands[i].title), statedFloor)
  => resOut.best = 0

\* C6: the resolver never returns a candidate whose known year differs by more
\* than 1 from the item's known year.
C6_YearFarNeverSelected ==
  Resolved /\ resOut.best # 0 => ~statedYearFar(item, cands[resOut.best])

\* C7: the year bonus added to a candidate's score is 18 for equal known
\* years, 10 for known years that differ by 1, and 0 otherwise, in particular
\* when either year, or both, is unknown.
C7_YearBonus ==
  Resolved =>
    \A i \in DOMAIN cands : resOut.yearBonus[i] = statedYearBonus(item, cands[i])

\* C8: the returned candidate survives hard-reject and has the maximum score
\* 100 * similarity + 25 (equal normalized titles) + year bonus + 3 (rating)
\* + 2 (url) among the survivors, the target title being the primary title or,
\* when that is absent, the original title (stated for the build's resolver
\* on lists whose candidates all clear the floor and have a known year within
\* 1 of the item's known year).
C8_MaximumScoreSelected ==
  /\ Resolved /\ resOut.by = "getFARating" /\ resOut.best # 0
  /\ item.year # NullNum
  /\ \A i \in DOMAIN cands :
       /\ cands[i].year # NullNum /\ ~statedYearFar(item, cands[i])
       /\ ~FracLt(simBy(resOut.by, statedTarget(item), cands[i].title), statedFloor)
  => /\ resOut.best \in statedSurvivors
     /\ \A j \in statedSurvivors :
          ~FracLt(statedScore(resOut.by, item, cands[resOut.best]),
                  statedScore(resOut.by, item, cands[j]))

\* C27: a result of the resolver that is not null is one of the candidates it
\* was given, passed the hard-reject rules and has a title similarity of at
\* least the floor; for an empty list, or a list whose candidates are all
\* hard-rejected, the result is null.
C27_ResultIsAdmissibleCandidate ==
  Resolved =>
    /\ resOut.best # 0 =>
         /\ resOut.best \in DOMAIN cands
         /\ ~statedReject(item, cands[resOut.best])
         /\ ~FracLt(simBy(resOut.by, statedTarget(item), cands[resOut.best].title),
                    statedFloor)
    /\ statedSurvivors = {} => resOut.best = 0

(***************************************************************************)
(* The query cascade as the specification states it (section 4.4)          *)
(***************************************************************************)
Returned == pc = "returned"

\* the result the cache holds for the j-th query of the call
cachedFor(j) == faCache[keyOf(queries[j])]

\* the j-th query of the call was resolved
resolvedQuery(j) == keyOf(queries[j]) \in DOMAIN faCache

\* C1: findRating tries its queries in priority order and returns the result
\* of the first query whose result has a rating or a title; it returns the
\* all-null result only when every query of the list was exhausted without
\* such a result, also when the cache holds negative entries of earlier items.
C1_CascadeReturnsFirstHit ==
  (Returned /\ rev = "latest") =>
    \/ /\ isHit(ret)
       /\ \E k \in 1..Len(queries) :
            /\ resolvedQuery(k) /\ ret = cachedFor(k)
            /\ \A j \in 1..(k - 1) : resolvedQuery(j) /\ ~isHit(cachedFor(j))
    \/ /\ ret = NoResult
       /\ \A j \in 1..Len(queries) : resolvedQuery(j) /\ ~isHit(cachedFor(j))

\* the search request of this step got a response that is not ok
SearchFailed == pc = "search" /\ failures' = failures + 1

\* the detail request of this step, the last of its query, got a response
\* that is not ok, as did every detail request of the query before it
EveryDetailFailed ==
  /\ pc = "detail" /\ failures' = failures + 1
  /\ ki = Len(faUrls) /\ fetched = 0

\* what getFARating does after a search that lists no candidate: the
\* all-null result is cached for the query and the cascade goes on
LikeNoCandidates ==
  LET key == cacheKey(queries[qi], args.desiredType) IN
  /\ DOMAIN faCache' = (DOMAIN faCache) \cup {key}
  /\ faCache'[key] = NoResult
  /\ \A k \in DOMAIN faCache : k # key => faCache'[k] = faCache[k]
  /\ qi' = qi + 1 /\ pc' = "query" /\ ret' = ret

\* C21: in getFARating of part_001, a search that is not ok, and a query
\* whose detail requests are all not ok, end the query as a search without
\* candidates does: the all-null result is cached and the next query is tried.
C21_FailureLikeNoMatch ==
  [][(rev = "latest" /\ (SearchFailed \/ EveryDetailFailed)) => LikeNoCandidates]_vars

\* the first query of a call listed two candidates and both detail requests
\* failed: the query is cached as negative and the second query is next
C21_Witness ==
  /\ rev = "latest" /\ calls = 1 /\ pc = "query" /\ qi = 2
  /\ site[queries[1]] = <<1, 2>>
  /\ failures = 2 /\ fetched = 0
  /\ cachedFor(1) = NoResult

\* C22: in the revisions that have a cache, no query is searched more than
\* once for an item type in a run; when the cascade moves on to the next
\* query the query it leaves has a cache entry; and a cache entry, positive
\* or negative, is never changed or removed.
C22_SearchOncePerKey ==
  [][rev # "first" =>
       /\ \A k \in DOMAIN searched' : searched'[k] <= 1
       /\ (qi \in 1..Len(queries) /\ qi' = qi + 1) =>
            keyOf(queries[qi]) \in DOMAIN faCache'
       /\ \A k \in DOMAIN faCache : k \in DOMAIN faCache' /\ faCache'[k] = faCache[k]]_vars

\* a second call for the same item returned at its first query without a
\* second search: the one search of the run for it was made by the first call
C22_Witness ==
  /\ rev # "first" /\ calls = 2 /\ Returned /\ qi = 1
  /\ prev.args = args
  /\ searched[<<queries[1], args.type>>] = 1
  /\ Cardinality(DOMAIN faCache) >= 2

\* C23: a result the cache holds from a call for an item of one type is never
\* returned to a call for an item of the other type with the same query string.
C23_CachedForOwnType ==
  [][(pc = "query" /\ pc' = "returned" /\ qi <= Len(queries)) =>
       writer[thisKey] = args.type]_vars


requesting == pc \in {"search", "detail"}

\* C25: every request to the scraped source, search or detail, is immediately
\* preceded by a completed throttle delay of its own: the step that sends a
\* request is a sleep started with no delay left over, and the answer of the
\* request leaves no delay for the next one.
C25_ThrottleBeforeEveryRequest ==
  [][/\ requesting' => (~requesting /\ slept = 0 /\ slept' >= 200)
     /\ requesting => slept' = 0]_vars

\* the detail request of a query's second candidate waits for its own delay
C25_Witness ==
  /\ pc = "detail" /\ ki = 2 /\ slept = detailDelay
  /\ searched[<<queries[qi], args.type>>] = 1 /\ fetched = 1

\* C26: the cache is transparent: with the source answering every request, a
\* second call for the same item returns the result the first call returned,
\* in particular not the all-null result when the first call succeeded on
\* its second or a later query.
C26_RepeatedCallSameResult ==
  (Returned /\ calls = 2 /\ failures = 0 /\ prev.args = args) => ret = prev.ret

(***************************************************************************)
(* The aggregate as the specification states it (section 4.5)              *)
(***************************************************************************)
Aggregated == aggPc \in {"final", "covered"}

\* the six signals of the statement, in the order scraped, numericApi,
\* criticPercent, audiencePercent, criticPercent2, userScore10
SignalKeys == <<"fa", "imdb", "rtCrit", "rtAud", "mcCrit", "mcUser">>

\* the stated weights, in thousandths: 0.25, 0.25 and four times 0.125
statedWeights == <<250, 250, 125, 125, 125, 125>>

\* the signals that are percentages, divided by 10 to reach the 0-10 scale
PercentSignals == {3, 4, 5}

\* the signals present in an item
statedPresent(x) == { i \in 1..Len(SignalKeys) : x[SignalKeys[i]] # NullNum }

\* the 0-10 value of a present signal, in hundredths of a point
statedValue(x, i) ==
  IF i \in PercentSignals THEN (x[SignalKeys[i]] * 100) \div 10
  ELSE x[SignalKeys[i]] * 10

\* C12: computeFinal returns null exactly when none of the six signals of
\* the item is present.
C12_NullIffNoSignal ==
  Aggregated => ((aggOut.final = NullNum) <=> (statedPresent(aggX) = {}))

\* a signal that is present and zero, a non-null result
C12_Witness ==
  /\ Aggregated
  /\ aggX.fa = 0
  /\ statedPresent(aggX) = {1}
  /\ aggOut.final = 0

\* C13: the result is the sum over the present signals of
\* (weight / sum of the present weights) * value, rounded to 2 decimals: it
\* is a whole number of hundredths at most half a hundredth away from that
\* sum; the stated weights add up to 1; with exactly one signal present the
\* result is that signal's 0-10 value.
C13_RenormalizedWeightedMean ==
  /\ sumOver(statedWeights, 1..Len(statedWeights)) = 1000
  /\ (Aggregated /\ statedPresent(aggX) # {}) =>
       LET ps == statedPresent(aggX)
           den == sumOver(statedWeights, ps)
           num == sumOver([i \in 1..Len(SignalKeys) |->
                             IF i \in ps THEN statedWeights[i] * statedValue(aggX, i) ELSE 0], ps)
       IN  /\ 2 * (aggOut.final * den - num) <= den
           /\ 2 * (num - aggOut.final * den) <= den
           /\ \A i \in ps : ps = {i} => aggOut.final = statedValue(aggX, i)

\* two signals of unequal weight and value: 2/3 of 7.8 and 1/3 of 8.5 is 8.03
C13_Witness ==
  /\ Aggregated
  /\ aggX = [fa |-> 78, imdb |-> NullNum, rtCrit |-> 85, rtAud |-> NullNum,
             mcCrit |-> NullNum, mcUser |-> NullNum]
  /\ aggOut.final = 803

(***************************************************************************)
(* The ranking as the specification states it (section 4.6)                *)
(***************************************************************************)
Ranked == topPc = "done"

\* the number of signals present in an item of a build
statedCoverage(x) == Cardinality({ k \in {"fa", "imdb"} : x[k] # NullNum })

\* the stated sort key: final, else imdb, else fa, else 0, in hundredths
statedKey(x) ==
  IF x.final # NullNum THEN x.final
  ELSE IF x.imdb # NullNum THEN 10 * x.imdb
  ELSE IF x.fa # NullNum THEN 10 * x.fa
  ELSE 0

\* the positions of the input items with at least one signal
statedAdmissible == { i \in 1..Len(topItems) : statedCoverage(topItems[i]) >= 1 }

\* C15: no item of the output of pickTop has coverage 0, whatever its tmdb
\* vote average.
C15_NoZeroCoverageOutput ==
  Ranked => \A i \in 1..Len(topOut) : statedCoverage(topOut[i]) >= 1

\* C16: pickTop(items, n) of part_001 and of the second revision of
\* build-latest.mjs returns min(n, number of admissible items) items, each
\* an admissible input item and none twice, the item at position i of rank
\* i, the sort keys non-increasing, and no admissible item left out has a
\* key above the key of the last item.
C16_TopNOfAdmissible ==
  (Ranked /\ topRev = "latest") =>
    LET outIds == { topOut[i].id : i \in 1..Len(topOut) } IN
    /\ Len(topOut) = (IF topN < Cardinality(statedAdmissible) THEN topN
                      ELSE Cardinality(statedAdmissible))
    /\ outIds \subseteq statedAdmissible
    /\ Cardinality(outIds) = Len(topOut)
    /\ \A i \in 1..Len(topOut) :
         /\ topOut[i].rank = i
         /\ statedKey(topOut[i]) = statedKey(topItems[topOut[i].id])
         /\ i < Len(topOut) => statedKey(topOut[i]) >= statedKey(topOut[i + 1])
    /\ \A j \in statedAdmissible \ outIds :
         Len(topOut) > 0 => statedKey(topItems[j]) <= statedKey(topOut[Len(topOut)])

\* three admissible items and one that is not, the best one last in the
\* input, two places in the output
C16_Witness ==
  /\ Ranked /\ topRev = "latest"
  /\ Len(topItems) = 3 /\ topN = 2 /\ Len(topOut) = 2
  /\ Cardinality(statedAdmissible) = 3
  /\ topOut[1].id = 3
  /\ statedKey(topOut[1]) > statedKey(topOut[2])
  /\ \E j \in statedAdmissible : statedKey(topItems[j]) < statedKey(topOut[2])

\* C17: items of equal key keep the order they had in the input, so that
\* the output is the one list in the order (key descending, input position
\* ascending) and is the same for the same input.
C17_StableAndDeterministic ==
  (Ranked /\ topRev = "latest") =>
    \A i \in 1..Len(topOut), j \in 1..Len(topOut) :
      i < j =>
        \/ statedKey(topOut[i]) > statedKey(topOut[j])
        \/ statedKey(topOut[i]) = statedKey(topOut[j]) /\ topOut[i].id < topOut[j].id

\* two items of equal key in the output, behind an item that came after
\* them in the input
C17_Witness ==
  /\ Ranked /\ topRev = "latest"
  /\ Len(topOut) = 3
  /\ topOut[1].id = 3
  /\ statedKey(topOut[2]) = statedKey(topOut[3])
  /\ topOut[2].id = 1 /\ topOut[3].id = 2

(***************************************************************************)
(* The window as the specification states it (section 4.7)                 *)
(***************************************************************************)
Windowed == winPc = "done"

\* midnight UTC of the dates of the calendar, in days since 1970-01-01
statedDayNumber ==
  [d \in {Date20231201, Date20231227, Date20240101, Date20240110, Date20240111,
          Date20240229} |->
     IF d = Date20231201 THEN 19692
     ELSE IF d = Date20231227 THEN 19718
     ELSE IF d = Date20240101 THEN 19723
     ELSE IF d = Date20240110 THEN 19732
     ELSE IF d = Date20240111 THEN 19733
     ELSE 19782]

\* the stated result: the date present and parseable, and
\* 0 <= (now - midnight UTC of the date) / one day <= days
statedInWindow(iso, days, now) ==
  /\ iso \in DOMAIN statedDayNumber
  /\ 0 <= now - statedDayNumber[iso] * 1440
  /\ now - statedDayNumber[iso] * 1440 <= days * 1440

\* C18: the window function returns true exactly when the date is present
\* and parseable and 0 <= (now - midnight UTC of the date) / 86400000 <= days.
C18_InWindowIff ==
  Windowed => ((winOut = "true") <=> statedInWindow(winIso, winDays, winNow))

(***************************************************************************)
(* The build as the specification states it (sections 4.5 to 4.7 and 6)    *)
(***************************************************************************)
\* the items the build has enriched: the ones it kept and the one of the
\* iteration just finished, which the coverage gate may have dropped
EnrichedSoFar ==
  Range(bEnriched) \cup Range(bOut) \cup (IF bCur.coverage # NullStr THEN {bCur} ELSE {})

\* the coverage count of an item: the n of its coverage "n/6"
statedCount(x) == CHOOSE n \in 0..6 : x.coverage = <<DigitChars[n + 1], "/", "6">>

\* C14: an enriched item of a build has a non-null final only if its
\* coverage count is at least 1.
C14_FinalOnlyWithCoverage ==
  \A x \in EnrichedSoFar : x.final # NullNum => statedCount(x) >= 1

\* an item with one signal and a final, after an item with none and no final
C14_Witness ==
  /\ bPc = "done"
  /\ bCur.final # NullNum /\ statedCount(bCur) = 1 /\ bCur.id = 2
  /\ Len(bEnriched) = 1
  /\ <<"getFARating", 1>> \in bLog

\* the calls that look up a rating or search candidates for a title
RatingLookups == {"external_ids", "omdb", "getFARating"}

\* C19: every series of the ranked output has a release date within the 14
\* days before the build, and no rating lookup or candidate search is
\* issued for a series whose date is absent or outside the window.
C19_SeriesWithinWindow ==
  bKind = "series" =>
    /\ \A i \in 1..Len(bOut) : statedInWindow(bOut[i].releaseES, 14, bNow)
    /\ \A l \in bLog :
         l[1] \in RatingLookups => statedInWindow(bCatalog[l[2]].releaseES, 14, bNow)

\* C20: no response that is not ok ends the run with an exception.
C20_NoFailureAbortsTheRun ==
  bPc # "aborted"

(***************************************************************************)
(* The filter chips                                                        *)
(***************************************************************************)
\* the values of a group's selected list
selectedOf(state, group) == Range(state[selectedKey(group)])

otherGroup(group) == IF group = "platform" THEN "genre" ELSE "platform"

\* C28: after any sequence of chip clicks and clear clicks a value is in its
\* group's selected list exactly when its chip was clicked an odd number of
\* times since mount or the last clear; no selected list holds a value twice;
\* a chip click leaves the selection of the other group unchanged; a clear
\* click empties both; and every chip or clear click calls onChange exactly
\* once, with the selection the click leaves.
C28_SelectionFollowsClicks ==
  [][fPc' = "mounted" =>
       /\ \A c \in Chips :
            chipValues(c[1])[c[2]] \in selectedOf(fState', c[1]) <=> fClicks'[c] % 2 = 1
       /\ \A g \in Groups :
            /\ Cardinality(selectedOf(fState', g)) = Len(fState'[selectedKey(g)])
            /\ selectedOf(fState', g) \subseteq Range(chipValues(g))
       /\ (fEvents' = fEvents + 1 /\ fLast'.kind = "chip") =>
            /\ fState'[selectedKey(otherGroup(fLast'.group))]
                 = fState[selectedKey(otherGroup(fLast'.group))]
            /\ fCalls' = fCalls + 1 /\ fArg' = fState'
       /\ (fEvents' = fEvents + 1 /\ fLast'.kind = "clear") =>
            /\ fState' = NoneSelected
            /\ fCalls' = fCalls + 1 /\ fArg' = fState']_vars

\* a chip clicked twice is not selected, the chip clicked once after it in
\* its group is, and so is the one value selected in the other group, one
\* that needed escaping in the markup
C28_Witness ==
  /\ fPc = "mounted" /\ fEvents = 4 /\ fCalls = 5
  /\ fClicks[<<"platform", 1>>] = 2
  /\ fState.platformsSelected = <<Max>>
  /\ fState.genresSelected = <<SciFi>>

(***************************************************************************)
(* Specifications                                                          *)
(***************************************************************************)
\* the title functions on bounded strings
InitStr == StrInit /\ ResIdle /\ RunIdle /\ AggIdle /\ TopIdle /\ WinIdle /\ BuildIdle /\ FilterIdle
SpecStr == InitStr /\ [][StrNext]_vars

\* the resolvers on bounded items and candidate lists
InitRes == ResInit /\ StrIdle /\ RunIdle /\ AggIdle /\ TopIdle /\ WinIdle /\ BuildIdle /\ FilterIdle
SpecRes == InitRes /\ [][ResNext]_vars

\* the build's getFARating calls
Init == RunInit /\ StrIdle /\ ResIdle /\ AggIdle /\ TopIdle /\ WinIdle /\ BuildIdle /\ FilterIdle
Next == RunNext
Spec == Init /\ [][Next]_vars

\* computeFinal and coverage on bounded items
InitAgg == AggInit /\ StrIdle /\ ResIdle /\ RunIdle /\ TopIdle /\ WinIdle /\ BuildIdle /\ FilterIdle
SpecAgg == InitAgg /\ [][AggNext]_vars

\* pickTop on bounded lists of enriched items
InitTop == TopInit /\ StrIdle /\ ResIdle /\ RunIdle /\ AggIdle /\ WinIdle /\ BuildIdle /\ FilterIdle
SpecTop == InitTop /\ [][TopNext]_vars

\* the window functions on bounded dates and times
InitWin == WinInit /\ StrIdle /\ ResIdle /\ RunIdle /\ AggIdle /\ TopIdle /\ BuildIdle /\ FilterIdle
SpecWin == InitWin /\ [][WinNext]_vars

\* the builds on bounded catalogs, with responses that are not ok
InitBuild == BuildInit /\ StrIdle /\ ResIdle /\ RunIdle /\ AggIdle /\ TopIdle /\ WinIdle /\ FilterIdle
SpecBuild == InitBuild /\ [][BuildNext]_vars

\* the filter chips on bounded options and clicks
InitFilters ==
  /\ FilterInit /\ StrIdle /\ ResIdle /\ RunIdle /\ AggIdle /\ TopIdle /\ WinIdle
  /\ BuildIdle
SpecFilters == InitFilters /\ [][FilterNext]_vars

====
